---- MODULE Spec2Model ----
(***************************************************************************)
(* A model of batio's VT100 terminal: the escape decoder of                *)
(* vt100_terminal.py (Vt100Terminal._feed, _feed1, _execute,               *)
(* _execute_dsr_request, _reset_escape, events, the report requests and    *)
(* the output buffer) and the attach/unattach halves of linux_terminal.py  *)
(* and windows_terminal.py, run by an asyncio event loop.                  *)
(*                                                                         *)
(* A character is a one-element string naming it ("ESC" is "\x1b", "CR"    *)
(* is "\r", ...); a Python str is a sequence of characters.  Time is in    *)
(* milliseconds.  An optional value (None or a value v) is <<>> or <<v>>.  *)
(***************************************************************************)
EXTENDS Integers, Sequences, FiniteSets, TLC

\* ------------------------------------------------------------------------
\* Characters
\* ------------------------------------------------------------------------

\* ord(): the code point of every character the model feeds.
Ord ==
    ("ESC" :> 27) @@ ("^C" :> 3) @@ ("TAB" :> 9) @@ ("LF" :> 10) @@ ("CR" :> 13)
    @@ ("DEL" :> 127) @@ ("0x9b" :> 155) @@ ("0xe9" :> 233) @@ ("0xdc80" :> 56448)
    @@ ("0xd83d" :> 55357) @@ ("0xde00" :> 56832) @@ ("U+1f600" :> 128512)
    @@ (" " :> 32) @@ ("/" :> 47)
    @@ ("0" :> 48) @@ ("1" :> 49) @@ ("2" :> 50) @@ ("3" :> 51) @@ ("4" :> 52)
    @@ ("5" :> 53) @@ ("6" :> 54) @@ ("7" :> 55) @@ ("8" :> 56) @@ ("9" :> 57)
    @@ (":" :> 58) @@ (";" :> 59) @@ ("<" :> 60) @@ ("?" :> 63)
    @@ ("A" :> 65) @@ ("H" :> 72) @@ ("I" :> 73) @@ ("M" :> 77) @@ ("O" :> 79)
    @@ ("P" :> 80) @@ ("R" :> 82) @@ ("[" :> 91) @@ ("\\" :> 92) @@ ("]" :> 93)
    @@ ("a" :> 97) @@ ("b" :> 98) @@ ("c" :> 99) @@ ("d" :> 100) @@ ("e" :> 101)
    @@ ("f" :> 102) @@ ("g" :> 103) @@ ("h" :> 104) @@ ("l" :> 108)
    @@ ("m" :> 109) @@ ("n" :> 110) @@ ("o" :> 111) @@ ("r" :> 114)
    @@ ("t" :> 116) @@ ("|" :> 124) @@ ("~" :> 126)

Chars == DOMAIN Ord

\* The characters str.isprintable ASCII covers, 0x20 to 0x7e.
Printable == {c \in Chars : 32 <= Ord[c] /\ Ord[c] <= 126}

Digits == <<"0", "1", "2", "3", "4", "5", "6", "7", "8", "9">>

HexDigits == Digits \o <<"a", "b", "c", "d", "e", "f">>

IsDigit(c) == \E i \in 1..Len(Digits) : Digits[i] = c

IsHexDigit(c) == \E i \in 1..Len(HexDigits) : HexDigits[i] = c

HexVal(c) == (CHOOSE i \in 1..Len(HexDigits) : HexDigits[i] = c) - 1

\* int(s) of a non-empty string of decimal digits.
RECURSIVE ToInt(_)
ToInt(s) ==
    IF Len(s) = 0 THEN 0
    ELSE ToInt(SubSeq(s, 1, Len(s) - 1)) * 10 + HexVal(s[Len(s)])

\* int(s, 16) of a string of hexadecimal digits.
RECURSIVE ToInt16(_)
ToInt16(s) ==
    IF Len(s) = 0 THEN 0
    ELSE ToInt16(SubSeq(s, 1, Len(s) - 1)) * 16 + HexVal(s[Len(s)])

\* str(n) of a natural number.
RECURSIVE Str(_)
Str(n) == IF n < 10 THEN <<Digits[n + 1]>> ELSE Str(n \div 10) \o <<Digits[(n % 10) + 1]>>

\* s.split(sep)
RECURSIVE Split(_, _)
Split(s, sep) ==
    IF \A i \in 1..Len(s) : s[i] # sep THEN <<s>>
    ELSE LET k == CHOOSE i \in 1..Len(s) :
                      s[i] = sep /\ \A j \in 1..(i - 1) : s[j] # sep
         IN  <<SubSeq(s, 1, k - 1)>> \o Split(SubSeq(s, k + 1, Len(s)), sep)

\* \d+
IsNumber(s) == Len(s) > 0 /\ \A i \in 1..Len(s) : IsDigit(s[i])

\* s.endswith(suffix)
\* EndsWith comparing the last character only.
EndsWithLast(s, suffix) ==
    Len(s) >= Len(suffix) /\ s[Len(s)] = suffix[Len(suffix)]

EndsWith(s, suffix) ==
    Len(s) >= Len(suffix) /\ SubSeq(s, Len(s) - Len(suffix) + 1, Len(s)) = suffix

\* s.find(c): the 1-based index of the first c in s, 0 when there is none.
Find(s, c) ==
    IF \A i \in 1..Len(s) : s[i] # c THEN 0
    ELSE CHOOSE i \in 1..Len(s) : s[i] = c /\ \A j \in 1..(i - 1) : s[j] # c

\* s[:n]
Slice(s, n) == SubSeq(s, 1, IF n < Len(s) THEN n ELSE Len(s))

None == <<>>

Some(v) == <<v>>

\* ------------------------------------------------------------------------
\* Constants of vt100_terminal.py
\* ------------------------------------------------------------------------

\* PARAMS_RE taking the private marker "?" for a parameter byte.
PARAMS_RE_Private(c) == IsDigit(c) \/ c = ";" \/ c = "?"

\* PARAMS_RE = [0-9;], fullmatch of one character.
PARAMS_RE(c) == IsDigit(c) \/ c = ";"

BRACKETED_PASTE_START == <<"ESC", "[", "2", "0", "0", "~">>

BRACKETED_PASTE_END == <<"ESC", "[", "2", "0", "1", "~">>

FOCUS_IN == <<"ESC", "[", "I">>

FOCUS_OUT == <<"ESC", "[", "O">>

\* Seconds in the source (0.05 and 0.1); milliseconds here.
ESCAPE_TIMEOUT == 50

DRS_REQUEST_TIMEOUT == 100

\* The text between "ESC [" (and `lead`, when given) and the final character.
CsiBody(escape, lead) == SubSeq(escape, 3 + Len(lead), Len(escape) - 1)

IsCsi(escape, lead, finals) ==
    /\ Len(escape) >= 3 + Len(lead)
    /\ SubSeq(escape, 1, 2 + Len(lead)) = <<"ESC", "[">> \o lead
    /\ escape[Len(escape)] \in finals

\* CPR_RE = \x1b\[(\d+);(\d+)R
CPR_RE(escape) ==
    /\ IsCsi(escape, <<>>, {"R"})
    /\ LET groups == Split(CsiBody(escape, <<>>), ";")
       IN  Len(groups) = 2 /\ \A i \in 1..2 : IsNumber(groups[i])

\* COLOR_RE = \x1b\]1([10]);rgb:([0-9a-f]{4})/([0-9a-f]{4})/([0-9a-f]{4})\x1b\\
COLOR_RE(escape) ==
    /\ Len(escape) = 25
    /\ SubSeq(escape, 1, 3) = <<"ESC", "]", "1">>
    /\ escape[4] \in {"1", "0"}
    /\ SubSeq(escape, 5, 9) = <<";", "r", "g", "b", ":">>
    /\ \A i \in (10..13) \cup (15..18) \cup (20..23) : IsHexDigit(escape[i])
    /\ escape[14] = "/" /\ escape[19] = "/"
    /\ SubSeq(escape, 24, 25) = <<"ESC", "\\">>

\* DEVICE_ATTRIBUTES_RE = \x1b\[\?[0-9;]+c
DEVICE_ATTRIBUTES_RE(escape) ==
    /\ IsCsi(escape, <<"?">>, {"c"})
    /\ LET body == CsiBody(escape, <<"?">>)
       IN  Len(body) > 0 /\ \A i \in 1..Len(body) : PARAMS_RE(body[i])

\* PIXEL_GEOMETRY_RE = \x1b\[([6|4]);(\d+);(\d+)t
PIXEL_GEOMETRY_RE(escape) ==
    /\ IsCsi(escape, <<>>, {"t"})
    /\ LET groups == Split(CsiBody(escape, <<>>), ";")
       IN  /\ Len(groups) = 3
           /\ Len(groups[1]) = 1 /\ groups[1][1] \in {"6", "|", "4"}
           /\ IsNumber(groups[2]) /\ IsNumber(groups[3])

\* MOUSE_SGR_RE = \x1b\[<(\d+);(\d+);(\d+)(m|M)
MOUSE_SGR_RE(escape) ==
    /\ IsCsi(escape, <<"<">>, {"m", "M"})
    /\ LET groups == Split(CsiBody(escape, <<"<">>), ";")
       IN  Len(groups) = 3 /\ \A i \in 1..3 : IsNumber(groups[i])

\* ------------------------------------------------------------------------
\* Events (events.py)
\* ------------------------------------------------------------------------

Point(x, y) == [x |-> x, y |-> y]

Size(width, height) == [width |-> width, height |-> height]

KeyEvent(key, alt, ctrl, shift) ==
    [type |-> "KeyEvent", key |-> key, alt |-> alt, ctrl |-> ctrl, shift |-> shift]

MouseEvent(pos, button, event_type, alt, ctrl, shift, dx, dy) ==
    [type |-> "MouseEvent", pos |-> pos, button |-> button,
     event_type |-> event_type, alt |-> alt, ctrl |-> ctrl, shift |-> shift,
     dx |-> dx, dy |-> dy, nclicks |-> 0]

PasteEvent(paste) == [type |-> "PasteEvent", paste |-> paste]

FocusEvent(focus) == [type |-> "FocusEvent", focus |-> focus]

ResizeEvent(size) == [type |-> "ResizeEvent", size |-> size]

CursorPositionResponseEvent(pos) ==
    [type |-> "CursorPositionResponseEvent", pos |-> pos]

ColorReportEvent(kind, color) ==
    [type |-> "ColorReportEvent", kind |-> kind, color |-> color]

DeviceAttributesReportEvent(attributes) ==
    [type |-> "DeviceAttributesReportEvent", attributes |-> attributes]

PixelGeometryReportEvent(kind, geometry) ==
    [type |-> "PixelGeometryReportEvent", kind |-> kind, geometry |-> geometry]

UnknownEscapeSequence(escape) ==
    [type |-> "UnknownEscapeSequence", escape |-> escape]

\* ANSI_ESCAPES of ansi_escapes.py: the escape strings that are keys, each
\* with the arguments of its KeyEvent.
ANSI_ESCAPES ==
    (<<"ESC">> :> KeyEvent("escape", FALSE, FALSE, FALSE))
    @@ (<<"^C">> :> KeyEvent("c", FALSE, TRUE, FALSE))
    @@ (<<"TAB">> :> KeyEvent("tab", FALSE, FALSE, FALSE))
    @@ (<<"CR">> :> KeyEvent("enter", FALSE, FALSE, FALSE))
    @@ (<<"DEL">> :> KeyEvent("backspace", FALSE, FALSE, FALSE))
    @@ (<<"ESC", "[", "A">> :> KeyEvent("up", FALSE, FALSE, FALSE))
    @@ (<<"ESC", "[", "H">> :> KeyEvent("home", FALSE, FALSE, FALSE))
    @@ (<<"ESC", "O", "P">> :> KeyEvent("f1", FALSE, FALSE, FALSE))
    @@ (<<"ESC", "[", "[", "A">> :> KeyEvent("f1", FALSE, FALSE, FALSE))
    @@ (<<"ESC", "[", "3", "~">> :> KeyEvent("delete", FALSE, FALSE, FALSE))

\* ------------------------------------------------------------------------
\* Vt100Terminal: the fields of one terminal object
\* ------------------------------------------------------------------------

\* Vt100Terminal.__init__.  `raised` is not a field: it says that the
\* statement being run raised an exception.
NewTerminal ==
    [state |-> "GROUND",
     escape_buffer |-> None,
     paste_buffer |-> None,
     event_buffer |-> <<>>,
     out_buffer |-> <<>>,
     dsr_request_times |-> <<>>,
     last_x |-> 0,
     last_y |-> 0,
     event_handler |-> None,
     reset_timer_handle |-> None,
     raised |-> FALSE]

Raise(t) == [t EXCEPT !.raised = TRUE]

\* list.append on the event buffer.
Emit(t, event) == [t EXCEPT !.event_buffer = Append(@, event)]

\* StringIO.write: the paste buffer is StringIO(newline=None), which
\* translates each "\r" written to "\n"; the escape buffer is StringIO().
Write(buffer, char, translate) ==
    Append(buffer, IF translate /\ char = "CR" THEN "LF" ELSE char)

\* PruneRequests keeping a request that is exactly as old as the timeout.
RECURSIVE PruneRequestsLate(_, _)
PruneRequestsLate(times, now) ==
    IF Len(times) > 0 /\ now - times[1] > DRS_REQUEST_TIMEOUT
    THEN PruneRequestsLate(Tail(times), now)
    ELSE times

\* _execute, lines 330-333: drop the requests that reached the timeout.
RECURSIVE PruneRequests(_, _)
PruneRequests(times, now) ==
    IF Len(times) > 0 /\ now - times[1] >= DRS_REQUEST_TIMEOUT
    THEN PruneRequests(Tail(times), now)
    ELSE times

\* The event of a reply, lines 383-400 of _execute_dsr_request; None when
\* the escape is no reply.  map(int, ...) of an empty device attribute is a
\* ValueError, reported as an event of type "ValueError".
DsrEvent(escape) ==
    IF CPR_RE(escape)
    THEN LET groups == Split(CsiBody(escape, <<>>), ";")
             y == groups[1]
             x == groups[2]
         IN  Some(CursorPositionResponseEvent(Point(ToInt(y) - 1, ToInt(x) - 1)))
    ELSE IF COLOR_RE(escape)
    THEN LET kind == escape[4]
             r == SubSeq(escape, 10, 13)
             g == SubSeq(escape, 15, 18)
             b == SubSeq(escape, 20, 23)
         IN  Some(ColorReportEvent(
                 IF kind = "0" THEN "fg" ELSE "bg",
                 <<ToInt16(SubSeq(r, 1, 2)), ToInt16(SubSeq(g, 1, 2)),
                   ToInt16(SubSeq(b, 1, 2))>>))
    ELSE IF DEVICE_ATTRIBUTES_RE(escape)
    THEN LET device_attributes == Split(CsiBody(escape, <<"?">>), ";")
         IN  IF \E i \in 1..Len(device_attributes) : Len(device_attributes[i]) = 0
             THEN Some([type |-> "ValueError"])
             ELSE Some(DeviceAttributesReportEvent(
                      {ToInt(device_attributes[i]) : i \in 1..Len(device_attributes)}))
    ELSE IF PIXEL_GEOMETRY_RE(escape)
    THEN LET groups == Split(CsiBody(escape, <<>>), ";")
             kind == groups[1][1]
             height == groups[2]
             width == groups[3]
         IN  Some(PixelGeometryReportEvent(
                 IF kind = "6" THEN "cell" ELSE "terminal",
                 Size(ToInt(height), ToInt(width))))
    ELSE None

\* ExecuteDsrRequest taking whatever escape arrives for the answer to the
\* oldest request: an escape of no reply shape consumes the request too.
ExecuteDsrRequestEager(t, escape) ==
    LET event == DsrEvent(escape)
        popped == [t EXCEPT !.dsr_request_times = Tail(@)]
    IN  IF event = None THEN [ok |-> TRUE, t |-> popped]
        ELSE IF event[1].type = "ValueError" THEN [ok |-> FALSE, t |-> Raise(t)]
        ELSE [ok |-> TRUE, t |-> Emit(popped, event[1])]

\* ExecuteDsrRequest taking the newest request (pop) instead of the oldest.
ExecuteDsrRequestNewest(t, escape) ==
    LET event == DsrEvent(escape)
    IN  IF event = None THEN [ok |-> FALSE, t |-> t]
        ELSE IF event[1].type = "ValueError" THEN [ok |-> FALSE, t |-> Raise(t)]
        ELSE [ok |-> TRUE,
              t |-> Emit([t EXCEPT !.dsr_request_times = SubSeq(@, 1, Len(@) - 1)],
                         event[1])]

\* _execute_dsr_request: [ok |-> the value returned, t |-> the terminal after].
ExecuteDsrRequest(t, escape) ==
    LET event == DsrEvent(escape)
    IN  IF event = None THEN [ok |-> FALSE, t |-> t]
        ELSE IF event[1].type = "ValueError" THEN [ok |-> FALSE, t |-> Raise(t)]
        ELSE [ok |-> TRUE,
              t |-> Emit([t EXCEPT !.dsr_request_times = Tail(@)], event[1])]

\* bool(info & mask) for a one-bit mask.
Bit(info, mask) == (info \div mask) % 2 = 1

\* _execute, line 354: the button of the low two bits.
MouseButton(info) == <<"left", "middle", "right", "no_button">>[(info % 4) + 1]

\* MouseKind testing the motion bit before the scroll bit.
MouseKindMotionFirst(info, state) ==
    IF Bit(info, 32)
    THEN [event_type |-> "mouse_move", button |-> MouseButton(info)]
    ELSE IF Bit(info, 64)
    THEN [event_type |-> IF Bit(info, 1) THEN "scroll_down" ELSE "scroll_up",
          button |-> "no_button"]
    ELSE IF state = "m"
    THEN [event_type |-> "mouse_up", button |-> MouseButton(info)]
    ELSE [event_type |-> IF MouseButton(info) = "no_button"
                         THEN "mouse_move" ELSE "mouse_down",
          button |-> MouseButton(info)]

\* _execute, lines 357-366: the event type and the button of a mouse event.
MouseKind(info, state) ==
    IF Bit(info, 64)
    THEN [event_type |-> IF Bit(info, 1) THEN "scroll_down" ELSE "scroll_up",
          button |-> "no_button"]
    ELSE IF Bit(info, 32)
    THEN [event_type |-> "mouse_move", button |-> MouseButton(info)]
    ELSE IF state = "m"
    THEN [event_type |-> "mouse_up", button |-> MouseButton(info)]
    ELSE [event_type |-> IF MouseButton(info) = "no_button"
                         THEN "mouse_move" ELSE "mouse_down",
          button |-> MouseButton(info)]

\* ExecuteMouse recording the position before it computes the delta.
ExecuteMouseStale(t, escape) ==
    LET groups == Split(CsiBody(escape, <<"<">>), ";")
        info == ToInt(groups[1])
        x == ToInt(groups[2]) - 1
        y == ToInt(groups[3]) - 1
        moved == [t EXCEPT !.last_x = x, !.last_y = y]
        dx == x - moved.last_x
        dy == y - moved.last_y
        kind == MouseKind(info, escape[Len(escape)])
    IN  Emit(moved,
             MouseEvent(Point(x, y), kind.button, kind.event_type,
                        Bit(info, 8), Bit(info, 16), Bit(info, 4), dx, dy))

\* The mouse event of an SGR mouse escape, lines 346-373 of _execute.
ExecuteMouse(t, escape) ==
    LET groups == Split(CsiBody(escape, <<"<">>), ";")
        info == ToInt(groups[1])
        x == ToInt(groups[2]) - 1
        y == ToInt(groups[3]) - 1
        dx == x - t.last_x
        dy == y - t.last_y
        kind == MouseKind(info, escape[Len(escape)])
    IN  Emit([t EXCEPT !.last_x = x, !.last_y = y],
             MouseEvent(Point(x, y), kind.button, kind.event_type,
                        Bit(info, 8), Bit(info, 16), Bit(info, 4), dx, dy))

\* _execute: produce an event from the escape buffer.  Reading a missing
\* escape buffer (line 327) is an AttributeError.
Execute(t, now) ==
    IF t.escape_buffer = None THEN Raise([t EXCEPT !.state = "GROUND"])
    ELSE
    LET escape == t.escape_buffer[1]
        t1 == [t EXCEPT !.state = "GROUND",
                        !.escape_buffer = None,
                        !.dsr_request_times = PruneRequests(@, now)]
        dsr == IF Len(t1.dsr_request_times) > 0
               THEN ExecuteDsrRequest(t1, escape)
               ELSE [ok |-> FALSE, t |-> t1]
    IN  IF dsr.ok \/ dsr.t.raised THEN dsr.t
        ELSE IF escape = BRACKETED_PASTE_START
        THEN [t1 EXCEPT !.state = "PASTE", !.paste_buffer = Some(<<>>)]
        ELSE IF escape = FOCUS_IN THEN Emit(t1, FocusEvent("in"))
        ELSE IF escape = FOCUS_OUT THEN Emit(t1, FocusEvent("out"))
        ELSE IF MOUSE_SGR_RE(escape) THEN ExecuteMouse(t1, escape)
        ELSE IF escape \in DOMAIN ANSI_ESCAPES THEN Emit(t1, ANSI_ESCAPES[escape])
        ELSE IF Len(escape) = 2 /\ 32 <= Ord[escape[2]] /\ Ord[escape[2]] <= 126
        THEN Emit(t1, KeyEvent(escape[2], TRUE, FALSE, FALSE))
        ELSE Emit(t1, UnknownEscapeSequence(escape))

\* self._escape_buffer.write(char); writing to a missing buffer is an
\* AttributeError.
WriteEscape(t, char) ==
    IF t.escape_buffer = None THEN Raise(t)
    ELSE [t EXCEPT !.escape_buffer = Some(Write(@[1], char, FALSE))]

\* IsControl knowing the C0 characters and DEL but not the C1 character 0x9b.
IsControlC0(char) == Ord[char] < 32 \/ char = "DEL"

\* _feed1, line 293: a control character, finalized as its own sequence.
IsControl(char) == Ord[char] < 32 \/ char = "DEL" \/ char = "0x9b"

\* FeedGround making the key event as the ESC x branch of _execute does.
FeedGroundAlt(t, char, now) ==
    IF IsControl(char)
    THEN Execute([t EXCEPT !.escape_buffer = Some(<<char>>)], now)
    ELSE Emit(t, KeyEvent(char, TRUE, FALSE, FALSE))

\* FeedGround executing a control character without buffering it first.
FeedGroundNoBuffer(t, char, now) ==
    IF IsControl(char)
    THEN Execute(t, now)
    ELSE Emit(t, KeyEvent(char, FALSE, FALSE, FALSE))

\* _feed1, lines 292-298: a character fed in GROUND.
FeedGround(t, char, now) ==
    IF IsControl(char)
    THEN Execute([t EXCEPT !.escape_buffer = Some(<<char>>)], now)
    ELSE Emit(t, KeyEvent(char, FALSE, FALSE, FALSE))

\* FeedPaste cutting one character too few off the end of the paste.
FeedPasteShortCut(t, char) ==
    IF t.paste_buffer = None THEN Raise(t)
    ELSE LET paste == Write(t.paste_buffer[1], char, TRUE)
             t1 == [t EXCEPT !.paste_buffer = Some(paste)]
         IN  IF char = "~" /\ EndsWith(paste, BRACKETED_PASTE_END)
             THEN [Emit(t1, PasteEvent(SubSeq(paste, 1, Len(paste) - 5)))
                      EXCEPT !.paste_buffer = None, !.state = "GROUND"]
             ELSE t1

\* _feed1, lines 284-291: a character fed in PASTE.  Writing to a missing
\* paste buffer is an AttributeError.
FeedPaste(t, char) ==
    IF t.paste_buffer = None THEN Raise(t)
    ELSE LET paste == Write(t.paste_buffer[1], char, TRUE)
             t1 == [t EXCEPT !.paste_buffer = Some(paste)]
         IN  IF char = "~" /\ EndsWith(paste, BRACKETED_PASTE_END)
             THEN [Emit(t1, PasteEvent(SubSeq(paste, 1, Len(paste) - 6)))
                      EXCEPT !.paste_buffer = None, !.state = "GROUND"]
             ELSE t1

\* _feed1: feed a single character into the parser.
Feed1(t, char, now) ==
    IF t.state = "OSC"
    THEN LET t1 == WriteEscape(t, char)
         IN  IF t1.raised THEN t1
             ELSE IF char = "\\" /\ EndsWith(t1.escape_buffer[1], <<"ESC", "\\">>)
             THEN Execute(t1, now)
             ELSE t1
    ELSE IF t.state # "PASTE" /\ char = "ESC"
    THEN [t EXCEPT !.escape_buffer = Some(<<char>>), !.state = "ESCAPE"]
    ELSE IF t.state = "EXECUTE_NEXT"
    THEN LET t1 == WriteEscape(t, char)
         IN  IF t1.raised THEN t1 ELSE Execute(t1, now)
    ELSE IF t.state = "PASTE"
    THEN FeedPaste(t, char)
    ELSE IF t.state = "GROUND"
    THEN FeedGround(t, char, now)
    ELSE IF t.state = "ESCAPE"
    THEN LET t1 == WriteEscape(t, char)
         IN  IF t1.raised THEN t1
             ELSE IF char = "[" THEN [t1 EXCEPT !.state = "CSI"]
             ELSE IF char = "O" THEN [t1 EXCEPT !.state = "EXECUTE_NEXT"]
             ELSE IF char = "]" THEN [t1 EXCEPT !.state = "OSC"]
             ELSE Execute(t1, now)
    ELSE IF t.state = "CSI"
    THEN LET t1 == WriteEscape(t, char)
         IN  IF t1.raised THEN t1
             ELSE IF char = "[" THEN [t1 EXCEPT !.state = "EXECUTE_NEXT"]
             ELSE IF char = "<" THEN [t1 EXCEPT !.state = "PARAMS"]
             ELSE IF ~PARAMS_RE(char) THEN Execute(t1, now)
             ELSE [t1 EXCEPT !.state = "PARAMS"]
    ELSE IF t.state = "PARAMS"
    THEN LET t1 == WriteEscape(t, char)
         IN  IF t1.raised THEN t1
             ELSE IF ~PARAMS_RE(char) THEN Execute(t1, now)
             ELSE t1
    ELSE t

\* ResetEscape leaving the paste buffer behind when a paste times out.
ResetEscapeKeepPaste(t, now) ==
    IF t.state = "PASTE"
    THEN IF t.paste_buffer = None THEN Raise(t)
         ELSE LET paste == t.paste_buffer[1]
                  t1 == [t EXCEPT !.state = "GROUND"]
                  partial_escape_index == Find(paste, "ESC")
                  ending == SubSeq(paste, partial_escape_index, Len(paste))
                  stripped ==
                      IF /\ partial_escape_index # 0
                         /\ Slice(BRACKETED_PASTE_END, Len(ending)) = ending
                      THEN SubSeq(paste, 1, partial_escape_index - 1)
                      ELSE paste
              IN  Emit(t1, PasteEvent(stripped))
    ELSE Execute(t, now)

\* ResetEscape dropping the text the parser holds instead of finalizing it.
ResetEscapeDiscard(t, now) ==
    [t EXCEPT !.state = "GROUND", !.escape_buffer = None, !.paste_buffer = None]

\* _reset_escape, lines 410-425: what the timeout does to the parser (the
\* call of the event handler that follows is part of the timer's action).
ResetEscape(t, now) ==
    IF t.state = "PASTE"
    THEN IF t.paste_buffer = None THEN Raise(t)
         ELSE LET paste == t.paste_buffer[1]
                  t1 == [t EXCEPT !.paste_buffer = None, !.state = "GROUND"]
                  partial_escape_index == Find(paste, "ESC")
                  ending == SubSeq(paste, partial_escape_index, Len(paste))
                  stripped ==
                      IF /\ partial_escape_index # 0
                         /\ Slice(BRACKETED_PASTE_END, Len(ending)) = ending
                      THEN SubSeq(paste, 1, partial_escape_index - 1)
                      ELSE paste
              IN  Emit(t1, PasteEvent(stripped))
    ELSE Execute(t, now)

\* ------------------------------------------------------------------------
\* The running system
\* ------------------------------------------------------------------------

\* Bounds of the model.
MaxTime == 150

MaxBuf == 3

MaxEvents == 2

MaxRequests == 2

MaxReady == 2

MaxCoord == 4

MaxPaste == 2

MaxOut == 2

MaxAttach == 2

MaxRecords == 1

MaxOsc == 5

VARIABLES
    term,       \* the terminal object (its fields)
    now,        \* perf_counter() and loop.time(), in milliseconds
    timers,     \* the loop's scheduled call_later handles: their deadlines
    ready,      \* the loop's queue of callbacks that are ready to run
    running,    \* the `process` callback the loop is running, or None
    reader,     \* the stdin reader registered with add_reader, or None
    sigwinch,   \* the installed SIGWINCH handler, or None (SIG_DFL)
    wire,       \* characters the terminal has sent that are not yet read
    sending,    \* history: the text the terminal sent last and what came of it
    last,       \* history: the last step taken and what it did
    win,        \* WindowsTerminal: _remove_event, the event objects, the
                \* waiting workers and the console's unread input records
    console     \* the console's settings and the settings raw_mode() saved

vars == <<term, now, timers, ready, running, reader, sigwinch, wire, sending, last,
          win, console>>

Handlers == {"h1", "h2"}

Sizes == {Size(80, 24), Size(100, 30)}

\* What a step records: the operation, the character fed (or ""), the
\* handler call it made ([handler, events]), the list events() returned,
\* the text written to stdout and the number of requests it dropped.
Step(op, char, called, ret, written) ==
    [op |-> op, char |-> char, called |-> called, ret |-> ret, written |-> written,
     dropped |-> 0, arg |-> <<>>]

\* The requests a step from terminal t to terminal u dropped as timed out:
\* those that left the queue, but for the one a reply answered.
Dropped(t, u) ==
    Len(t.dsr_request_times) - Len(u.dsr_request_times)
    - (IF /\ Len(u.event_buffer) > Len(t.event_buffer)
          /\ u.event_buffer[Len(u.event_buffer)].type \in
                 {"CursorPositionResponseEvent", "ColorReportEvent",
                  "DeviceAttributesReportEvent", "PixelGeometryReportEvent"}
       THEN 1 ELSE 0)

\* The termios attributes of a terminal in its usual line mode: the flags
\* raw_mode() names, and VMIN.
Cooked ==
    [iflag |-> {"ICRNL", "IXON"}, lflag |-> {"ECHO", "ICANON", "IEXTEN", "ISIG"},
     vmin |-> 1]

\* A console with the settings `mode` on which raw_mode() was not called.
Console(platform, mode) ==
    [platform |-> platform, mode |-> mode, original |-> None, entered |-> None]

\* The state after construction, the console's settings apart.
InitTerminal ==
    /\ term = NewTerminal
    /\ now = 0
    /\ timers = <<>>
    /\ ready = <<>>
    /\ running = None
    /\ reader = None
    /\ sigwinch = None
    /\ wire = <<>>
    /\ sending = [kind |-> "none", arg |-> <<>>, text |-> <<>>, origin |-> "",
                  produced |-> <<>>, interrupted |-> FALSE]
    /\ last = Step("init", "", None, None, None)
    /\ win = [remove_event |-> None, handles |-> <<>>, waits |-> {}, input |-> <<>>]

Init ==
    /\ InitTerminal
    /\ console = Console("linux", [stdin |-> Cooked, stdout |-> {}])

\* Time passes.
Tick ==
    /\ running = None
    /\ now + ESCAPE_TIMEOUT <= MaxTime
    /\ now' = now + ESCAPE_TIMEOUT
    /\ last' = Step("tick", "", None, None, None)
    /\ UNCHANGED <<console, win, term, timers, ready, running, reader, sigwinch, wire, sending>>

\* The sequence without its first element equal to v.
RemoveOne(seq, v) ==
    IF \A i \in 1..Len(seq) : seq[i] # v THEN seq
    ELSE LET k == CHOOSE i \in 1..Len(seq) :
                      seq[i] = v /\ \A j \in 1..(i - 1) : seq[j] # v
         IN  SubSeq(seq, 1, k - 1) \o SubSeq(seq, k + 1, Len(seq))

\* Cancel leaving the timer scheduled.
CancelNothing(scheduled, handle) == scheduled

\* TimerHandle.cancel(): the loop never runs a cancelled handle.
Cancel(scheduled, handle) ==
    IF handle = None THEN scheduled ELSE RemoveOne(scheduled, handle[1])

\* Schedule starting the timer for a lone ESC only, the one sequence that is
\* both complete and a prefix.
ScheduleEscapeOnly(t, scheduled, time, loop) ==
    IF t.state # "ESCAPE" \/ ~loop
    THEN [t |-> t, timers |-> scheduled]
    ELSE [t |-> [t EXCEPT !.reset_timer_handle = Some(time + ESCAPE_TIMEOUT)],
          timers |-> Append(scheduled, time + ESCAPE_TIMEOUT)]

\* Schedule without the early return in GROUND.
ScheduleAlways(t, scheduled, time, loop) ==
    IF ~loop
    THEN [t |-> t, timers |-> scheduled]
    ELSE [t |-> [t EXCEPT !.reset_timer_handle = Some(time + ESCAPE_TIMEOUT)],
          timers |-> Append(scheduled, time + ESCAPE_TIMEOUT)]

\* _feed, lines 258-268: unless the parser is in GROUND or no loop is
\* running, call_later(ESCAPE_TIMEOUT, self._reset_escape):
\* [t |-> the terminal after, timers |-> the loop's timers after].
Schedule(t, scheduled, time, loop) ==
    IF t.state = "GROUND" \/ ~loop
    THEN [t |-> t, timers |-> scheduled]
    ELSE [t |-> [t EXCEPT !.reset_timer_handle = Some(time + ESCAPE_TIMEOUT)],
          timers |-> Append(scheduled, time + ESCAPE_TIMEOUT)]

\* Events returning the event buffer without resetting it.
EventsKeep(t) == [ret |-> t.event_buffer, t |-> t]

\* Vt100Terminal.events: return the event buffer and reset it.
Events(t) == [ret |-> t.event_buffer, t |-> [t EXCEPT !.event_buffer = <<>>]]

\* LinuxTerminal.attach
Attach(h) ==
    /\ running = None
    /\ term.event_handler = None
    /\ term' = [term EXCEPT !.event_buffer = <<>>, !.event_handler = Some(h)]
    /\ reader' = Some(h)
    /\ sigwinch' = Some(h)
    /\ last' = Step("attach", "", None, None, None)
    /\ UNCHANGED <<console, win, now, timers, ready, running, wire, sending>>

\* loop.remove_reader: the reader's handle is cancelled, also when queued.
RemoveReader(queue) == SelectSeq(queue, LAMBDA cb : cb.src # "reader")

\* LinuxTerminal.unattach
Unattach ==
    /\ running = None
    /\ term.event_handler # None
    /\ ready' = RemoveReader(ready)
    /\ reader' = None
    /\ sigwinch' = None
    /\ term' = [term EXCEPT !.event_handler = None]
    /\ last' = Step("unattach", "", None, None, None)
    /\ UNCHANGED <<console, win, now, timers, running, wire, sending>>

\* The selector reports stdin readable: the loop queues the reader callback.
StdinReadable ==
    /\ reader # None
    /\ \A i \in 1..Len(ready) : ready[i].src # "reader"
    /\ Len(ready) < MaxReady
    /\ ready' = Append(ready, [src |-> "reader", handler |-> reader[1]])
    /\ last' = Step("readable", "", None, None, None)
    /\ UNCHANGED <<console, win, term, now, timers, running, reader, sigwinch, wire, sending>>

\* on_resize of LinuxTerminal.attach, the SIGWINCH handler.
OnResize(size) ==
    /\ sigwinch # None
    /\ Len(ready) < MaxReady
    /\ Len(term.event_buffer) < MaxEvents
    /\ term' = Emit(term, ResizeEvent(size))
    /\ ready' = Append(ready, [src |-> "soon", handler |-> sigwinch[1]])
    /\ last' = Step("on_resize", "", None, None, None)
    /\ UNCHANGED <<console, win, now, timers, running, reader, sigwinch, wire, sending>>

\* The loop starts a queued `process` callback: process_stdin calls _feed,
\* which first cancels the pending timer (lines 251-253).
ProcessBegin ==
    /\ running = None
    /\ ready # <<>>
    /\ running' = Some(Head(ready))
    /\ ready' = Tail(ready)
    /\ timers' = Cancel(timers, term.reset_timer_handle)
    /\ term' = [term EXCEPT !.reset_timer_handle = None]
    /\ last' = Step("process_begin", "", None, None, None)
    /\ UNCHANGED <<console, win, now, reader, sigwinch, wire, sending>>

\* The length of the text the parser holds.
BufLen(t) ==
    (IF t.escape_buffer = None THEN 0 ELSE Len(t.escape_buffer[1]))
    + (IF t.paste_buffer = None THEN 0 ELSE Len(t.paste_buffer[1]))

\* _feed, lines 255-256: the next character of the data read from stdin is
\* fed, `rest` staying unread.  An exception ends the callback.
FeedChar(char, rest) ==
    /\ running # None
    /\ LET t == Feed1([term EXCEPT !.raised = FALSE], char, now)
       IN  /\ term' = t
           /\ running' = IF t.raised THEN None ELSE running
           /\ last' = [Step("feed1", char, None, None, None)
                          EXCEPT !.dropped = Dropped(term, t)]
    /\ wire' = rest
    /\ UNCHANGED <<console, win, now, timers, ready, reader, sigwinch>>

\* The end of the `process` callback: _feed schedules the timer unless the
\* parser is in GROUND (lines 258-268), then event_handler(self.events()).
ProcessEnd ==
    /\ running # None
    /\ LET fed == Schedule(term, timers, now, TRUE)
           drained == Events(fed.t)
       IN  /\ timers' = fed.timers
           /\ term' = drained.t
           /\ last' = Step("process_end", "",
                           Some([handler |-> running[1].handler,
                                 events |-> drained.ret]),
                           Some(drained.ret), None)
    /\ running' = None
    /\ UNCHANGED <<console, win, now, ready, reader, sigwinch, wire, sending>>

\* TimerFire without the call of the event handler.
TimerFireSilent ==
    /\ running = None
    /\ \E i \in 1..Len(timers) :
        /\ timers[i] <= now
        /\ timers' = SubSeq(timers, 1, i - 1) \o SubSeq(timers, i + 1, Len(timers))
    /\ term' = ResetEscape([term EXCEPT !.raised = FALSE], now)
    /\ last' = Step("reset_escape", "", None, None, None)
    /\ UNCHANGED <<console, win, now, ready, running, reader, sigwinch, wire, sending>>

\* A scheduled timer is due and the loop runs _reset_escape: the parser is
\* reset, then the event handler, if any, is called with events().
TimerFire ==
    /\ running = None
    /\ \E i \in 1..Len(timers) :
        /\ timers[i] <= now
        /\ timers' = SubSeq(timers, 1, i - 1) \o SubSeq(timers, i + 1, Len(timers))
    /\ LET t == ResetEscape([term EXCEPT !.raised = FALSE], now)
           drained == Events(t)
       IN  IF ~t.raised /\ t.event_handler # None
           THEN /\ term' = drained.t
                /\ last' = [Step("reset_escape", "",
                                 Some([handler |-> t.event_handler[1],
                                       events |-> drained.ret]),
                                 Some(drained.ret), None)
                              EXCEPT !.dropped = Dropped(term, t)]
           ELSE /\ term' = t
                /\ last' = [Step("reset_escape", "", None, None, None)
                              EXCEPT !.dropped = Dropped(term, t)]
    /\ sending' = [sending EXCEPT !.interrupted =
                       @ \/ (wire # <<>> /\ Len(wire) < Len(sending.text))]
    /\ UNCHANGED <<console, win, now, ready, running, reader, sigwinch, wire>>

\* The application calls events().
CallEvents ==
    /\ running = None
    /\ LET drained == Events(term)
       IN  /\ term' = drained.t
           /\ last' = Step("events", "", None, Some(drained.ret), None)
    /\ UNCHANGED <<console, win, now, timers, ready, running, reader, sigwinch, wire, sending>>

\* Vt100Terminal.cursor_position: buffer the sequence moving the cursor.
CursorPosition(t, pos) ==
    [t EXCEPT !.out_buffer = Append(@,
        <<"ESC", "[">> \o Str(pos.y + 1) \o <<";">> \o Str(pos.x + 1) \o <<"H">>)]

\* "".join(self._out_buffer)
RECURSIVE Join(_)
Join(strings) ==
    IF Len(strings) = 0 THEN <<>> ELSE Head(strings) \o Join(Tail(strings))

\* str.encode(errors="replace"): a lone surrogate is written as "?".
Encode(text) ==
    [i \in 1..Len(text) |->
        IF 55296 <= Ord[text[i]] /\ Ord[text[i]] <= 57343 THEN "?" ELSE text[i]]

\* Flush leaving the data it wrote in the output buffer.
FlushKeep(t) ==
    IF Len(t.out_buffer) = 0 THEN [written |-> None, t |-> t]
    ELSE [written |-> Some(Encode(Join(t.out_buffer))), t |-> t]

\* Vt100Terminal.flush: [written |-> the data written or None, t |-> after].
Flush(t) ==
    IF Len(t.out_buffer) = 0 THEN [written |-> None, t |-> t]
    ELSE [written |-> Some(Encode(Join(t.out_buffer))),
          t |-> [t EXCEPT !.out_buffer = <<>>]]

\* RequestDsr writing the request before the output buffered earlier.
RequestDsrFirst(t, request, time) ==
    Flush([t EXCEPT !.dsr_request_times = Append(@, time),
                    !.out_buffer = <<request>> \o @])

\* Vt100Terminal._request_dsr
RequestDsr(t, request, time) ==
    Flush([t EXCEPT !.dsr_request_times = Append(@, time),
                    !.out_buffer = Append(@, request)])

\* The request strings of request_cursor_position_report, ...
Requests ==
    [cursor_position_report |-> <<"ESC", "[", "6", "n">>,
     foreground_color |-> <<"ESC", "]", "1", "0", ";", "?", "ESC", "\\">>,
     background_color |-> <<"ESC", "]", "1", "1", ";", "?", "ESC", "\\">>,
     device_attributes |-> <<"ESC", "[", "c">>,
     cell_geometry |-> <<"ESC", "[", "1", "6", "t">>,
     terminal_geometry |-> <<"ESC", "[", "1", "4", "t">>]

\* The application calls request_<kind>().
Request(kind) ==
    /\ running = None
    /\ Len(term.dsr_request_times) < MaxRequests
    /\ LET flushed == RequestDsr(term, Requests[kind], now)
       IN  /\ term' = flushed.t
           /\ last' = [Step("request", "", None, None, flushed.written)
                          EXCEPT !.arg = kind]
    /\ UNCHANGED <<console, win, now, timers, ready, running, reader, sigwinch, wire, sending>>

\* The terminal sends `text`, which is the `kind` of `arg`, once all it
\* sent before has been read and while the parser holds a short text only.
Send(kind, arg, text) ==
    /\ running = None
    /\ wire = <<>>
    /\ BufLen(term) <= MaxBuf
    /\ wire' = text
    /\ sending' = [kind |-> kind, arg |-> arg, text |-> text, origin |-> "",
                   produced |-> <<>>, interrupted |-> FALSE]
    /\ last' = Step("send", "", None, None, None)
    /\ UNCHANGED <<console, win, term, now, timers, ready, running, reader, sigwinch>>

\* The next character the terminal sent is read and fed.  The history keeps
\* the parser state the text met and the events its characters produced.
FeedWire ==
    /\ wire # <<>>
    /\ FeedChar(Head(wire), Tail(wire))
    /\ sending' = [sending EXCEPT
           !.origin = IF Len(wire) = Len(sending.text) THEN term.state ELSE @,
           !.produced = @ \o SubSeq(term'.event_buffer, Len(term.event_buffer) + 1,
                                    Len(term'.event_buffer))]

\* ------------------------------------------------------------------------
\* Spec: the decoder under arbitrary input, one character at a time
\* ------------------------------------------------------------------------

Alphabet == {"ESC", "[", "1", "a"}

\* Any character of the alphabet is read and fed, within the bounds.
FeedAny ==
    /\ \E char \in Alphabet :
           /\ BufLen(Feed1(term, char, now)) <= MaxBuf
           /\ Len(Feed1(term, char, now).event_buffer) <= MaxEvents
           /\ FeedChar(char, wire)
    /\ UNCHANGED sending

Next ==
    \/ Tick
    \/ Attach("h1")
    \/ Unattach
    \/ StdinReadable
    \/ ProcessBegin
    \/ FeedAny
    \/ ProcessEnd
    \/ TimerFire
    \/ CallEvents

Spec == Init /\ [][Next]_vars

\* s is a prefix of t.
IsPrefix(s, t) == Len(s) <= Len(t) /\ SubSeq(t, 1, Len(s)) = s

\* The events a step produced: those it handed to the handler or, when it
\* called no handler, those now in the event buffer.
Produced == IF last'.called # None THEN last'.called[1].events ELSE term'.event_buffer

\* C8: a printable character fed in GROUND appends exactly one event, the
\* KeyEvent of that character without modifiers, and leaves the parser in
\* GROUND; a batch that ends in GROUND schedules no timer.
C8_PrintableInGround ==
    [][/\ (last'.op = "feed1" /\ term.state = "GROUND" /\ last'.char \in Printable)
          => /\ term'.event_buffer =
                    Append(term.event_buffer, KeyEvent(last'.char, FALSE, FALSE, FALSE))
             /\ term'.state = "GROUND"
             /\ term'.escape_buffer = None
             /\ timers' = timers
       /\ (last'.op = "process_end" /\ term.state = "GROUND")
          => timers' = timers /\ term'.reset_timer_handle = None]_vars

C8_Witness ==
    /\ last.op = "feed1" /\ last.char = "a"
    /\ term.state = "GROUND"
    /\ Len(term.event_buffer) = 2
    /\ term.event_buffer[2] = KeyEvent("a", FALSE, FALSE, FALSE)

\* C3: when the timeout fires on a lone ESC, exactly one event is produced,
\* KeyEvent("escape"), and the parser is in GROUND with no escape buffer.
C3_LoneEscapeTimeout ==
    [][(last'.op = "reset_escape" /\ term.state = "ESCAPE"
            /\ term.escape_buffer = Some(<<"ESC">>))
       => /\ Produced = Append(term.event_buffer,
                               KeyEvent("escape", FALSE, FALSE, FALSE))
          /\ term'.state = "GROUND"
          /\ term'.escape_buffer = None
          /\ term'.paste_buffer = None]_vars

C3_Witness ==
    /\ last.op = "reset_escape"
    /\ last.called # None
    /\ last.called[1].events = <<KeyEvent("escape", FALSE, FALSE, FALSE)>>
    /\ term.state = "GROUND"
    /\ term.escape_buffer = None

\* C10: events() returns the whole event buffer, in order, and leaves it
\* empty (after a timeout: the buffer with what the timeout appended); a
\* second call in a row returns the empty list; no other step but attach
\* removes or reorders a buffered event.
C10_EventsDrains ==
    [][/\ last'.op = "events"
          => /\ last'.ret = Some(term.event_buffer)
             /\ term'.event_buffer = <<>>
             /\ (last.ret # None => last'.ret = Some(<<>>))
       /\ last'.op = "process_end"
          => last'.ret = Some(term.event_buffer) /\ term'.event_buffer = <<>>
       /\ (last'.op = "reset_escape" /\ last'.ret # None)
          => IsPrefix(term.event_buffer, last'.ret[1]) /\ term'.event_buffer = <<>>
       /\ (last'.ret = None /\ last'.op # "attach")
          => IsPrefix(term.event_buffer, term'.event_buffer)]_vars

\* The events() call of `process` returned two different events, in order.
C10_Witness ==
    /\ last.op = "process_end"
    /\ last.ret # None
    /\ Len(last.ret[1]) = 2
    /\ last.ret[1][1] # last.ret[1][2]
    /\ term.event_buffer = <<>>

\* ------------------------------------------------------------------------
\* SpecDsr: cursor position requests and the terminal's reports
\* ------------------------------------------------------------------------

Positions == {Point(x, y) : x \in 0..MaxCoord, y \in 0..MaxCoord}

\* The report of a terminal whose cursor is where the sequence `moved`
\* (ESC [ row ; column H) put it: ESC [ row ; column R.
ReportOf(moved) == SubSeq(moved, 1, Len(moved) - 1) \o <<"R">>

\* The terminal reports the position cursor_position(pos) moved its cursor to.
Report(pos) ==
    LET out == CursorPosition(term, pos).out_buffer
    IN  Send("cpr", pos, ReportOf(out[Len(out)]))

RequestCursorPositionReport == Request("cursor_position_report")

NextDsr ==
    \/ Tick
    \/ Attach("h1")
    \/ StdinReadable
    \/ ProcessBegin
    \/ FeedWire
    \/ ProcessEnd
    \/ TimerFire
    \/ RequestCursorPositionReport
    \/ \E pos \in Positions : Report(pos)

SpecDsr == Init /\ [][NextDsr]_vars

\* The requests of the queue that are younger than the timeout.
Unexpired(times, time) ==
    SelectSeq(times, LAMBDA requested : time - requested < DRS_REQUEST_TIMEOUT)

\* The escape a step completes when it feeds the character of last'.
Completed == Append(term.escape_buffer[1], last'.char)

\* A step feeds the last character of a cursor position report.
FeedsReport ==
    /\ last'.op = "feed1"
    /\ term.escape_buffer # None
    /\ CPR_RE(Completed)

\* C1: when the report ESC [ r ; c R is completed while a request younger
\* than the DSR timeout is pending, exactly one event is appended, the
\* CursorPositionResponseEvent of the position x = c - 1, y = r - 1, and
\* the oldest such request leaves the queue.
C1_ReplyWithinTimeout ==
    [][(FeedsReport /\ Unexpired(term.dsr_request_times, now) # <<>>)
       => LET params == Split(CsiBody(Completed, <<>>), ";")
              r == ToInt(params[1])
              c == ToInt(params[2])
          IN  /\ term'.event_buffer =
                     Append(term.event_buffer,
                            CursorPositionResponseEvent([x |-> c - 1, y |-> r - 1]))
              /\ term'.dsr_request_times =
                     Tail(Unexpired(term.dsr_request_times, now))]_vars

\* The generic classification of an escape that is no paste, focus or
\* mouse sequence and no ESC x.
Generic(escape) ==
    IF escape \in DOMAIN ANSI_ESCAPES THEN ANSI_ESCAPES[escape]
    ELSE UnknownEscapeSequence(escape)

\* C2: when a cursor position report is completed while no request younger
\* than the DSR timeout is pending, the one event appended is the generic
\* classification of the escape (never a reply event) and the queue is left
\* empty: the expired requests are dropped without an event.
C2_NoReplyWithoutRequest ==
    [][(FeedsReport /\ Unexpired(term.dsr_request_times, now) = <<>>)
       => /\ term'.event_buffer = Append(term.event_buffer, Generic(Completed))
          /\ term'.dsr_request_times = <<>>]_vars

\* A report was read after its request had timed out: the request was
\* dropped and the report became an UnknownEscapeSequence.
C2_Witness ==
    /\ last.op = "feed1"
    /\ last.char = "R"
    /\ last.dropped >= 1
    /\ wire = <<>>
    /\ sending.kind = "cpr"
    /\ sending.produced = <<UnknownEscapeSequence(sending.text)>>
    /\ term.dsr_request_times = <<>>

\* C9: when the report of the position cursor_position(pos) moved the
\* cursor to is decoded as a reply, the event is
\* CursorPositionResponseEvent(pos).
C9_RoundTrip ==
    (/\ sending.kind = "cpr"
     /\ \E i \in 1..Len(sending.produced) :
            sending.produced[i].type = "CursorPositionResponseEvent")
    => sending.produced = <<CursorPositionResponseEvent(sending.arg)>>

\* The types of the events that answer a request.
ReplyTypes ==
    {"CursorPositionResponseEvent", "ColorReportEvent",
     "DeviceAttributesReportEvent", "PixelGeometryReportEvent"}

\* The step appended exactly one event, of a reply type.
AppendsReply ==
    /\ Len(term'.event_buffer) = Len(term.event_buffer) + 1
    /\ IsPrefix(term.event_buffer, term'.event_buffer)
    /\ term'.event_buffer[Len(term'.event_buffer)].type \in ReplyTypes

\* C29: replies are matched first-in first-out.  A step that completes a
\* reply while k >= 1 requests younger than the timeout are pending appends
\* exactly one event, a reply event and not the generic one, removes the
\* oldest request and leaves the other k - 1 in their order; and a feed step
\* appends a reply event only by removing a request, so n requests are
\* matched by at most n replies.
C29_FifoMatch ==
    [][/\ (FeedsReport /\ Unexpired(term.dsr_request_times, now) # <<>>)
          => /\ AppendsReply
             /\ term'.event_buffer[Len(term'.event_buffer)] # Generic(Completed)
             /\ term'.dsr_request_times = Tail(Unexpired(term.dsr_request_times, now))
       /\ (last'.op = "feed1" /\ AppendsReply)
          => /\ Unexpired(term.dsr_request_times, now) # <<>>
             /\ Len(term'.dsr_request_times)
                  = Len(Unexpired(term.dsr_request_times, now)) - 1]_vars

\* A report was matched while two requests were pending and none had
\* expired: the one made last, at 50 ms, is still queued.
C29_Witness ==
    /\ last.op = "feed1"
    /\ last.char = "R"
    /\ last.dropped = 0
    /\ sending.kind = "cpr"
    /\ sending.produced # <<>>
    /\ sending.produced[1].type = "CursorPositionResponseEvent"
    /\ term.dsr_request_times = <<50>>

\* ------------------------------------------------------------------------
\* SpecMouse: the terminal reports the mouse in SGR mode
\* ------------------------------------------------------------------------

\* The info values: every button, with each modifier bit (4 shift, 8 alt,
\* 16 ctrl) and every combination of the motion bit 32 and the scroll bit 64.
MouseInfos ==
    {button + modifier + kind :
        button \in 0..3, modifier \in {0, 4, 8, 16}, kind \in {0, 32, 64, 96}}

\* The 1-based <<column, row>> cells the terminal reports.
MouseCells == {<<1, 1>>, <<2, 5>>, <<10, 5>>}

\* The terminal sends ESC [ < info ; x ; y M (press or motion) or m (release).
SendMouse(b, column, row, final) ==
    Send("mouse", [x |-> column, y |-> row, state |-> final, info |-> b],
         <<"ESC", "[", "<">> \o Str(b) \o <<";">> \o Str(column) \o <<";">> \o Str(row)
         \o <<final>>)

NextMouse ==
    \/ Attach("h1")
    \/ StdinReadable
    \/ ProcessBegin
    \/ FeedWire
    \/ ProcessEnd
    \/ \E b \in MouseInfos, cell \in MouseCells, final \in {"M", "m"} :
           SendMouse(b, cell[1], cell[2], final)

SpecMouse == Init /\ [][NextMouse]_vars

\* A step feeds the last character of an SGR mouse sequence.
FeedsMouse ==
    /\ last'.op = "feed1"
    /\ term.escape_buffer # None
    /\ MOUSE_SGR_RE(Completed)

\* The numbers info, x, y of the mouse sequence a step completes.
MouseParams ==
    LET params == Split(CsiBody(Completed, <<"<">>), ";")
    IN  [x |-> ToInt(params[2]), y |-> ToInt(params[3]), info |-> ToInt(params[1])]

\* C6: the recorded last position starts as (0,0) and changes only when a
\* mouse sequence ESC [ < info ; x ; y (M|m) is completed; that step appends
\* one MouseEvent with pos = (x-1, y-1) and dx, dy equal to pos minus the
\* last position recorded before, and records pos as the last position.
C6_MousePosition ==
    /\ term.last_x = 0 /\ term.last_y = 0
    /\ [][IF FeedsMouse
          THEN /\ Len(term'.event_buffer) = Len(term.event_buffer) + 1
               /\ SubSeq(term'.event_buffer, 1, Len(term.event_buffer)) = term.event_buffer
               /\ LET event == term'.event_buffer[Len(term'.event_buffer)]
                  IN  /\ event.type = "MouseEvent"
                      /\ event.pos = [x |-> MouseParams.x - 1, y |-> MouseParams.y - 1]
                      /\ event.dx = event.pos.x - term.last_x
                      /\ event.dy = event.pos.y - term.last_y
                      /\ term'.last_x = event.pos.x
                      /\ term'.last_y = event.pos.y
          ELSE term'.last_x = term.last_x /\ term'.last_y = term.last_y]_vars

\* ESC [ < 0 ; 10 ; 5 M was decoded with (0,0) as the last position.
C6_Witness ==
    /\ last.op = "feed1"
    /\ wire = <<>>
    /\ sending.text = <<"ESC", "[", "<", "0", ";", "1", "0", ";", "5", "M">>
    /\ sending.produced =
           <<MouseEvent([x |-> 9, y |-> 4], "left", "mouse_down",
                        FALSE, FALSE, FALSE, 9, 4)>>
    /\ term.last_x = 9 /\ term.last_y = 4

\* C7: the event of a completed mouse sequence is a scroll with button
\* no_button when info has bit 64 (scroll_down when info is odd, else
\* scroll_up); else mouse_move when info has bit 32; else mouse_up when the
\* trailing character is m; else mouse_down, but mouse_move when the button
\* is no_button; unless a scroll, the button is info mod 4 over left,
\* middle, right, no_button.
C7_MouseKind ==
    [][FeedsMouse
       => LET info == MouseParams.info
              event == term'.event_buffer[Len(term'.event_buffer)]
              button == CASE info % 4 = 0 -> "left"
                          [] info % 4 = 1 -> "middle"
                          [] info % 4 = 2 -> "right"
                          [] info % 4 = 3 -> "no_button"
          IN  /\ Len(term'.event_buffer) = Len(term.event_buffer) + 1
              /\ event.type = "MouseEvent"
              /\ IF info % 128 >= 64
                 THEN /\ event.event_type = IF info % 2 = 1 THEN "scroll_down" ELSE "scroll_up"
                      /\ event.button = "no_button"
                 ELSE /\ event.button = button
                      /\ event.event_type =
                             IF info % 64 >= 32 THEN "mouse_move"
                             ELSE IF last'.char = "m" THEN "mouse_up"
                             ELSE IF button = "no_button" THEN "mouse_move"
                             ELSE "mouse_down"]_vars

\* A sequence with the scroll bit, the motion bit and bit 1 set, and a
\* trailing m, was decoded as a scroll_down.
C7_Witness ==
    /\ last.op = "feed1"
    /\ last.char = "m"
    /\ wire = <<>>
    /\ sending.kind = "mouse"
    /\ sending.arg.info = 97
    /\ Len(sending.produced) = 1
    /\ sending.produced[1].event_type = "scroll_down"
    /\ sending.produced[1].button = "no_button"

\* ------------------------------------------------------------------------
\* SpecPaste: the terminal sends bracketed pastes between other input
\* ------------------------------------------------------------------------

\* The sequences over `chars` of at most n characters.
RECURSIVE SeqsUpTo(_, _)
SeqsUpTo(chars, n) ==
    IF n = 0 THEN {<<>>}
    ELSE SeqsUpTo(chars, n - 1)
         \cup {Append(s, c) : s \in SeqsUpTo(chars, n - 1), c \in chars}

\* What is pasted: printable characters, "~" among them.
PasteContents ==
    SeqsUpTo({"a", "~"}, MaxPaste) \cup {<<"h", "e", "l", "l", "o", "~">>}

\* What the terminal sends before a paste: a key, ESC, the beginning of a
\* CSI or SS3 sequence, Alt+] (which is also the beginning of an OSC reply)
\* and the beginning of a paste whose rest is still to come.
Preludes ==
    {<<"a">>, <<"ESC">>, <<"ESC", "[", "1">>, <<"ESC", "O">>, <<"ESC", "]">>,
     BRACKETED_PASTE_START \o <<"a">>}

SendPaste(content) ==
    Send("paste", content, BRACKETED_PASTE_START \o content \o BRACKETED_PASTE_END)

SendPrelude(text) == Send("prelude", text, text)

NextPaste ==
    \/ Tick
    \/ Attach("h1")
    \/ StdinReadable
    \/ ProcessBegin
    \/ FeedWire
    \/ ProcessEnd
    \/ TimerFire
    \/ \E content \in PasteContents : SendPaste(content)
    \/ \E text \in Preludes : SendPrelude(text)

SpecPaste == Init /\ [][NextPaste]_vars

\* The last character of a paste was fed and no timeout fired since its
\* first character was.
PasteFed ==
    /\ sending.kind = "paste"
    /\ wire = <<>>
    /\ last.op = "feed1"
    /\ ~sending.interrupted

\* Start marker, content and end marker produced the one event
\* PasteEvent(content) and left the parser in GROUND.
PasteDecoded ==
    /\ sending.produced = <<PasteEvent(sending.arg)>>
    /\ term.state = "GROUND"
    /\ term.paste_buffer = None

\* C4 as stated: feeding the start marker, printable content and the end
\* marker with no timeout in between yields exactly one event,
\* PasteEvent(content), and leaves the decoder in GROUND.
C4_PasteAsStated == PasteFed => PasteDecoded

\* C4: the same, when the start marker arrives while the decoder is in
\* neither OSC (which accumulates the marker) nor PASTE (which takes it as
\* pasted text).
C4_Paste == (PasteFed /\ sending.origin \notin {"OSC", "PASTE"}) => PasteDecoded

\* The paste of hello~ was decoded from GROUND.
C4_Witness ==
    /\ PasteFed
    /\ sending.origin = "GROUND"
    /\ sending.arg = <<"h", "e", "l", "l", "o", "~">>
    /\ sending.produced = <<PasteEvent(<<"h", "e", "l", "l", "o", "~">>)>>
    /\ term.state = "GROUND"

\* ------------------------------------------------------------------------
\* SpecLoop: attach and unattach while the loop holds scheduled callbacks
\* ------------------------------------------------------------------------

NextLoop ==
    \/ Tick
    \/ \E h \in Handlers : Attach(h)
    \/ Unattach
    \/ StdinReadable
    \/ \E size \in Sizes : OnResize(size)
    \/ ProcessBegin
    \/ FeedAny
    \/ ProcessEnd
    \/ TimerFire

SpecLoop == Init /\ [][NextLoop]_vars

\* C5: a step calls a handler only while the terminal is attached with
\* that handler: once unattach() has returned, the handler passed to
\* attach() is called no more.
C5_NoCallAfterUnattach ==
    last.called # None => term.event_handler = Some(last.called[1].handler)

\* ------------------------------------------------------------------------
\* SpecDa: device attributes requests and the terminal's replies
\* ------------------------------------------------------------------------

\* The attribute lists the terminal reports.
AttributeLists == {<<1>>, <<1, 2>>, <<62, 4, 22>>}

\* a1 ; ... ; an
RECURSIVE JoinNumbers(_)
JoinNumbers(numbers) ==
    IF Len(numbers) = 1 THEN Str(numbers[1])
    ELSE Str(numbers[1]) \o <<";">> \o JoinNumbers(Tail(numbers))

\* The terminal's reply to ESC [ c: ESC [ ? a1 ; ... ; an c.
SendAttributes(attributes) ==
    Send("da", attributes, <<"ESC", "[", "?">> \o JoinNumbers(attributes) \o <<"c">>)

RequestDeviceAttributes == Request("device_attributes")

NextDa ==
    \/ Tick
    \/ Attach("h1")
    \/ StdinReadable
    \/ ProcessBegin
    \/ FeedWire
    \/ ProcessEnd
    \/ TimerFire
    \/ RequestDeviceAttributes
    \/ \E attributes \in AttributeLists : SendAttributes(attributes)

SpecDa == Init /\ [][NextDa]_vars

\* C11: when the last character of the device attributes reply
\* ESC [ ? a1 ; ... ; an c is fed while a request younger than the DSR
\* timeout is pending and no timeout fired during the reply, the reply has
\* produced exactly one event, the DeviceAttributesReportEvent of
\* {a1, ..., an}, and the oldest such request leaves the queue.
C11_DeviceAttributesReply ==
    [][(/\ last'.op = "feed1"
        /\ sending.kind = "da"
        /\ wire = <<"c">>
        /\ ~sending.interrupted
        /\ Unexpired(term.dsr_request_times, now) # <<>>)
       => /\ sending'.produced =
                <<DeviceAttributesReportEvent(
                    {sending.arg[i] : i \in 1..Len(sending.arg)})>>
          /\ term'.dsr_request_times =
                Tail(Unexpired(term.dsr_request_times, now))]_vars

\* ------------------------------------------------------------------------
\* SpecOut: the application writes, moves the cursor, requests and flushes
\* ------------------------------------------------------------------------

\* The data of write(): the empty string, a character, a lone surrogate
\* (which stdin's surrogateescape decoding yields), an escape sequence.
OutData == {<<>>, <<"a">>, <<"0xdc80">>, <<"ESC", "[", "H">>}

OutPositions == {Point(0, 0), Point(3, 4)}

\* Vt100Terminal.write
WriteData(t, data) == [t EXCEPT !.out_buffer = Append(@, data)]

\* The application calls write(data).
WriteCall(data) ==
    /\ running = None
    /\ Len(term.out_buffer) < MaxOut
    /\ term' = WriteData(term, data)
    /\ last' = [Step("write", "", None, None, None) EXCEPT !.arg = data]
    /\ UNCHANGED <<console, win, now, timers, ready, running, reader, sigwinch, wire, sending>>

\* The application calls the output command cursor_position(pos).
CursorPositionCall(pos) ==
    /\ running = None
    /\ Len(term.out_buffer) < MaxOut
    /\ term' = CursorPosition(term, pos)
    /\ last' = [Step("cursor_position", "", None, None, None) EXCEPT !.arg = pos]
    /\ UNCHANGED <<console, win, now, timers, ready, running, reader, sigwinch, wire, sending>>

\* The application calls flush().
FlushCall ==
    /\ running = None
    /\ LET flushed == Flush(term)
       IN  /\ term' = flushed.t
           /\ last' = Step("flush", "", None, None, flushed.written)
    /\ UNCHANGED <<console, win, now, timers, ready, running, reader, sigwinch, wire, sending>>

NextOut ==
    \/ Tick
    \/ \E data \in OutData : WriteCall(data)
    \/ \E pos \in OutPositions : CursorPositionCall(pos)
    \/ FlushCall
    \/ \E kind \in DOMAIN Requests : Request(kind)

SpecOut == Init /\ [][NextOut]_vars

\* C14: write() and the output commands append their piece to the output
\* buffer and write nothing; flush() (also the one of a request) writes the
\* concatenation of the buffered pieces, in order, and leaves the buffer
\* empty, and writes nothing when the buffer is empty; no other step touches
\* the buffer or writes.  So what is written is what was appended, in call
\* order, each piece once.
C14_OutputOnce ==
    [][LET out == term.out_buffer
           after == term'.out_buffer
       IN  /\ last'.op = "write"
              => after = Append(out, last'.arg) /\ last'.written = None
           /\ last'.op = "cursor_position"
              => /\ Len(after) = Len(out) + 1
                 /\ IsPrefix(out, after)
                 /\ last'.written = None
           /\ last'.op = "flush"
              => /\ after = <<>>
                 /\ last'.written =
                        IF out = <<>> THEN None ELSE Some(Encode(Join(out)))
           /\ last'.op = "request"
              => /\ after = <<>>
                 /\ last'.written # None
                 /\ IsPrefix(Encode(Join(out)), last'.written[1])
           /\ last'.op \notin {"write", "cursor_position", "flush", "request"}
              => after = out /\ last'.written = None]_vars

\* A flush wrote a written character and a cursor movement, in that order.
C14_Witness ==
    /\ last.op = "flush"
    /\ last.written = Some(<<"a", "ESC", "[", "5", ";", "4", "H">>)
    /\ term.out_buffer = <<>>

\* C15: a report request appends the current time, which no queued time
\* exceeds, to the request queue, and returns with the output buffer empty,
\* having written the output buffered before followed by its request.
C15_RequestQueued ==
    [][last'.op = "request"
       => /\ term'.dsr_request_times = Append(term.dsr_request_times, now)
          /\ \A i \in 1..Len(term.dsr_request_times) : term.dsr_request_times[i] <= now
          /\ term'.out_buffer = <<>>
          /\ last'.written =
                Some(Encode(Join(term.out_buffer)) \o Requests[last'.arg])]_vars

\* A second, later request was written after the output buffered before it.
C15_Witness ==
    /\ last.op = "request"
    /\ last.arg = "foreground_color"
    /\ Len(term.dsr_request_times) = 2
    /\ term.dsr_request_times[1] < term.dsr_request_times[2]
    /\ last.written = Some(<<"a">> \o Requests.foreground_color)
    /\ term.out_buffer = <<>>

\* ------------------------------------------------------------------------
\* SpecFeed: the decoder fed outside an event loop, over a wide alphabet
\* ------------------------------------------------------------------------

\* The element of a one-element set.
The(S) == CHOOSE x \in S : TRUE

\* _feed, lines 255-256: feed the characters of data; an exception ends it.
FeedAll(t, data, time) ==
    LET after[i \in 0..Len(data)] ==
            IF i = 0 THEN t
            ELSE IF after[i - 1].raised THEN after[i - 1]
            ELSE Feed1(after[i - 1], data[i], time)
    IN  after[Len(data)]

\* Vt100Terminal._feed, with `loop` saying that an event loop is running:
\* [t |-> the terminal after, timers |-> the loop's timers after].
FeedBatch(t, scheduled, data, time, loop) ==
    The({IF fed.raised
         THEN [t |-> fed, timers |-> Cancel(scheduled, t.reset_timer_handle)]
         ELSE Schedule(fed, Cancel(scheduled, t.reset_timer_handle), time, loop) :
         fed \in {FeedAll([t EXCEPT !.reset_timer_handle = None, !.raised = FALSE],
                          data, time)}})

\* The characters fed: every kind the branches of _feed1 and _execute tell
\* apart.
FeedChars ==
    {"ESC", "^C", "DEL", "0x9b", "0xe9", "[", "]", "O", "\\", "<", "?",
     "1", ";", "R", "c", "a", "A"}

\* The data of one feed: one character or a whole sequence (the start of a
\* paste, a focus report, a mouse report, a cursor position report, a
\* device attributes reply).
FeedStrings ==
    {<<char>> : char \in FeedChars}
    \cup {BRACKETED_PASTE_START, FOCUS_IN, <<"ESC", "[", "A">>,
          <<"ESC", "[", "<", "0", ";", "1", ";", "1", "M">>,
          <<"ESC", "[", "2", ";", "1", "R">>,
          <<"ESC", "[", "?", "1", ";", "2", "c">>}

\* The application feeds data with no event loop running, the events of the
\* feed before taken, and the parser's text kept short (a whole sequence is
\* fed to a parser holding nothing).
FeedNoLoop(data) ==
    /\ running = None
    /\ term.event_handler = None
    /\ term.event_buffer = <<>>
    /\ (BufLen(term) + Len(data) <= MaxBuf \/ BufLen(term) = 0)
    /\ \E fed \in {FeedBatch(term, timers, data, now, FALSE)} :
           /\ term' = fed.t
           /\ timers' = fed.timers
           /\ last' = [Step("feed", "", None, None, None)
                          EXCEPT !.arg = data, !.dropped = Dropped(term, fed.t)]
    /\ UNCHANGED <<console, win, now, ready, running, reader, sigwinch, wire, sending>>

NextFeed ==
    \/ \E data \in FeedStrings : FeedNoLoop(data)
    \/ CallEvents
    \/ RequestCursorPositionReport

SpecFeed == Init /\ [][NextFeed]_vars

\* The text of the sequence that feeding `char` completes.
Accumulated(char) ==
    IF term.state = "GROUND" THEN <<char>> ELSE Append(term.escape_buffer[1], char)

\* Feeding `char` finalizes a sequence: the escape buffer is gone after the
\* step, and the character was neither paste content nor a plain key.
Finalizes(char) ==
    /\ term'.escape_buffer = None
    /\ term.state # "PASTE"
    /\ term.state = "GROUND" => IsControl(char)

\* One of the rules of _execute matches `escape`.
MatchesRule(escape) ==
    \/ /\ Unexpired(term.dsr_request_times, now) # <<>>
       /\ \/ CPR_RE(escape) \/ COLOR_RE(escape)
          \/ DEVICE_ATTRIBUTES_RE(escape) \/ PIXEL_GEOMETRY_RE(escape)
    \/ escape \in {BRACKETED_PASTE_START, FOCUS_IN, FOCUS_OUT}
    \/ MOUSE_SGR_RE(escape)
    \/ escape \in DOMAIN ANSI_ESCAPES
    \/ Len(escape) = 2 /\ 32 <= Ord[escape[2]] /\ Ord[escape[2]] <= 126

\* C16: feeding never raises, whatever the parser holds and whatever is fed;
\* a character that finalizes a sequence matching no rule appends exactly
\* UnknownEscapeSequence of the accumulated text and leaves the parser in
\* GROUND with no escape buffer.
C16_FeedNeverFails ==
    [][last'.op = "feed"
       => /\ ~term'.raised
          /\ \A char \in FeedChars :
                (last'.arg = <<char>> /\ Finalizes(char)
                 /\ ~MatchesRule(Accumulated(char)))
                => /\ term'.event_buffer
                        = <<UnknownEscapeSequence(Accumulated(char))>>
                   /\ term'.state = "GROUND"
                   /\ term'.paste_buffer = None]_vars

\* A "?" fed after ESC [ finalized ESC [ ? as an unknown sequence.
C16_Witness ==
    /\ last.op = "feed"
    /\ last.arg = <<"?">>
    /\ term.state = "GROUND"
    /\ term.event_buffer = <<UnknownEscapeSequence(<<"ESC", "[", "?">>)>>

\* ------------------------------------------------------------------------
\* The escape timer
\* ------------------------------------------------------------------------

\* C19: at most one escape timer is pending and it is the one the terminal
\* holds the handle of; while a feed runs none is pending (the feed cancelled
\* it before its first character); the timeout handler runs only for that
\* timer and only with the parser outside GROUND.
C19_OneTimer ==
    [][/\ Len(timers') <= 1
       /\ timers' # <<>> => term'.reset_timer_handle = Some(timers'[1])
       /\ running' # None => timers' = <<>>
       /\ last'.op = "reset_escape"
          => /\ term.state # "GROUND"
             /\ timers = <<term.reset_timer_handle[1]>>]_vars

\* A feed began while a sequence was open, after the timer of the feed before
\* had come due: that timer is cancelled and none is pending.
C19_Witness ==
    /\ last.op = "process_begin"
    /\ term.state = "CSI"
    /\ now >= ESCAPE_TIMEOUT
    /\ timers = <<>>

\* C20: with the loop running and no feed in progress, an escape timer is
\* pending exactly when the parser is outside GROUND, and the timeout
\* handler leaves the parser in GROUND.
C20_TimerIffOpen ==
    [][/\ last'.op \in {"process_end", "reset_escape"}
          => (timers' # <<>> <=> term'.state # "GROUND")
       /\ last'.op = "reset_escape" => term'.state = "GROUND"]_vars

\* The timer fired during a paste: the paste was delivered, the parser is in
\* GROUND and no timer is pending.
C20_Witness ==
    /\ last.op = "reset_escape"
    /\ last.called # None
    /\ \E i \in 1..Len(last.called[1].events) :
           last.called[1].events[i].type = "PasteEvent"
    /\ term.state = "GROUND"
    /\ timers = <<>>

\* ------------------------------------------------------------------------
\* Resize notifications
\* ------------------------------------------------------------------------

\* The ResizeEvents of a list of events, in order.
Resizes(events) == SelectSeq(events, LAMBDA e : e.type = "ResizeEvent")

\* C12: a ResizeEvent buffered while a handler is attached (attach empties
\* the buffer, so it was notified during this attachment) leaves the buffer
\* only in a batch handed to that handler, and a callback that will hand it
\* over is queued or running for as long as it is buffered.
C12_ResizeDelivered ==
    [][/\ (/\ term.event_handler # None
           /\ Resizes(term.event_buffer) # <<>>
           /\ ~IsPrefix(Resizes(term.event_buffer), Resizes(term'.event_buffer)))
          => /\ last'.called # None
             /\ last'.called[1].handler = term.event_handler[1]
             /\ Resizes(last'.called[1].events) = Resizes(term.event_buffer)
       /\ (term'.event_handler # None /\ Resizes(term'.event_buffer) # <<>>)
          => (running' # None \/ ready' # <<>>)]_vars

\* ------------------------------------------------------------------------
\* SpecWin: WindowsTerminal, its wait worker and the console's input records
\* ------------------------------------------------------------------------

\* An INPUT_RECORD of type KEY_EVENT.
KeyRecord(char, down, control, vk) ==
    [EventType |-> "KEY_EVENT", UnicodeChar |-> char, KeyDown |-> down,
     ControlKeyState |-> control, VirtualKeyCode |-> vk, X |-> 0, Y |-> 0]

\* An INPUT_RECORD of type WINDOW_BUFFER_SIZE_EVENT.
SizeRecord(x, y) ==
    [EventType |-> "WINDOW_BUFFER_SIZE_EVENT", UnicodeChar |-> "", KeyDown |-> FALSE,
     ControlKeyState |-> 0, VirtualKeyCode |-> 0, X |-> x, Y |-> y]

\* A key pressed that carries `char`.
Key(char) == KeyRecord(char, TRUE, 0, 65)

\* A UTF-16 code unit of the high, of the low surrogate range.
IsHigh(char) == 55296 <= Ord[char] /\ Ord[char] <= 56319

IsLow(char) == 56320 <= Ord[char] /\ Ord[char] <= 57343

\* The character a surrogate pair encodes.
Pair(high, low) ==
    CHOOSE char \in Chars :
        Ord[char] = 65536 + (Ord[high] - 55296) * 1024 + (Ord[low] - 56320)

\* _purge, lines 267-269: "".join(chars).encode("utf-16", "surrogatepass")
\* .decode("utf-16") merges surrogate pairs; a surrogate without its partner
\* is a UnicodeDecodeError (None).
RECURSIVE Merge(_)
Merge(chars) ==
    IF Len(chars) = 0 THEN Some(<<>>)
    ELSE IF IsLow(chars[1]) THEN None
    ELSE IF IsHigh(chars[1])
    THEN IF Len(chars) >= 2 /\ IsLow(chars[2])
         THEN LET rest == Merge(SubSeq(chars, 3, Len(chars)))
              IN  IF rest = None THEN None
                  ELSE Some(<<Pair(chars[1], chars[2])>> \o rest[1])
         ELSE None
    ELSE LET rest == Merge(Tail(chars))
         IN  IF rest = None THEN None ELSE Some(<<chars[1]>> \o rest[1])

\* _feed(data) of _purge, data being None when the merge raised.
FeedMerged(t, scheduled, data, time) ==
    IF data = None THEN [t |-> Raise(t), timers |-> scheduled]
    ELSE FeedBatch(t, scheduled, data[1], time, TRUE)

\* WindowsTerminal._purge
Purge(t, scheduled, chars, time) == FeedMerged(t, scheduled, Merge(chars), time)

\* process_stdin, lines 260-263: after the purge, the ResizeEvent of a
\* window-size record is appended.
AppendResize(purged, size) ==
    [t |-> IF purged.t.raised THEN purged.t ELSE Emit(purged.t, ResizeEvent(size)),
     timers |-> purged.timers, chars |-> <<>>]

\* The characters read so far fed and none left: [t, timers, chars].
Purged(before, time) ==
    {Purge(before.t, before.timers, before.chars, time)}

\* AppendResize before the characters of the records read so far are fed.
RecordResizeUnpurged(before, record, time) ==
    [before EXCEPT !.t = Emit(@, ResizeEvent(Size(record.X, record.Y)))]

\* process_stdin, lines 260-263: a window-size record.
RecordResize(before, record, time) ==
    The({AppendResize(purged, Size(record.X, record.Y)) :
         purged \in Purged(before, time)})

\* process_stdin, lines 252-263: one input record; `before` and the result
\* are [t, timers, chars], chars being the characters not fed yet.
Record(before, record, time) ==
    IF before.t.raised THEN before
    ELSE IF record.EventType = "KEY_EVENT"
    THEN IF ~record.KeyDown THEN before
         ELSE IF record.ControlKeyState # 0 /\ record.VirtualKeyCode = 0 THEN before
         ELSE [before EXCEPT !.chars = Append(@, record.UnicodeChar)]
    ELSE IF record.EventType = "WINDOW_BUFFER_SIZE_EVENT"
    THEN RecordResize(before, record, time)
    ELSE before

\* process_stdin, line 264: the purge that ends the read.
PurgeLast(final, time) ==
    IF final.t.raised THEN [t |-> final.t, timers |-> final.timers]
    ELSE Purge(final.t, final.timers, final.chars, time)

\* WindowsTerminal.process_stdin on the records read:
\* [t |-> the terminal after, timers |-> the loop's timers after].
ProcessStdin(t, scheduled, records, time) ==
    LET read[i \in 0..Len(records)] ==
            IF i = 0
            THEN [t |-> [t EXCEPT !.raised = FALSE], timers |-> scheduled,
                  chars |-> <<>>]
            ELSE Record(read[i - 1], records[i], time)
    IN  PurgeLast(read[Len(records)], time)

\* The records the console queues: keys, a key released, a modifier alone,
\* a window resized.
BasicRecords ==
    {Key("a"), Key("ESC"), Key("["),
     KeyRecord("a", FALSE, 0, 65), KeyRecord("a", TRUE, 16, 0),
     SizeRecord(80, 24)}

\* What the console queues at once: up to MaxRecords records, keys around a
\* resize, a sequence cut by a resize, and a character outside the BMP,
\* alone, cut by a resize and cut by the end of the read.
RecordBatches ==
    (SeqsUpTo(BasicRecords, MaxRecords) \ {<<>>})
    \cup {<<Key("a"), SizeRecord(100, 30), Key("[")>>,
          <<Key("ESC"), Key("["), SizeRecord(100, 30), Key("A")>>,
          <<Key("0xd83d"), Key("0xde00")>>,
          <<Key("0xd83d"), SizeRecord(100, 30), Key("0xde00")>>,
          <<Key("0xd83d")>>}

\* WindowsTerminal.attach: a new event object, the worker started.  The
\* handlers being interchangeable, the first one attached is h1.
WinAttach(h) ==
    /\ running = None
    /\ term.event_handler = None
    /\ Len(win.handles) < MaxAttach
    /\ Len(win.handles) = 0 => h = "h1"
    /\ term' = [term EXCEPT !.event_buffer = <<>>, !.event_handler = Some(h)]
    /\ win' = [win EXCEPT
           !.remove_event = Some(Len(win.handles) + 1),
           !.handles = Append(@, "unset"),
           !.waits = @ \cup {[event |-> Len(win.handles) + 1, handler |-> h,
                              pc |-> "wait"]}]
    /\ last' = Step("attach", "", None, None, None)
    /\ UNCHANGED <<console, now, timers, ready, running, reader, sigwinch, wire, sending>>

\* SetEvent: no effect on a closed handle.
SetEvent(handles, event) ==
    [handles EXCEPT ![event] = IF @ = "closed" THEN @ ELSE "set"]

\* WindowsTerminal.unattach; self._remove_event is an AttributeError once a
\* worker deleted it.
WinUnattach ==
    /\ running = None
    /\ term.event_handler # None
    /\ term' = [term EXCEPT !.event_handler = None]
    /\ IF win.remove_event = None
       THEN /\ win' = win
            /\ last' = Step("unattach", "", None, Some("AttributeError"), None)
       ELSE /\ win' = [win EXCEPT !.handles = SetEvent(@, win.remove_event[1])]
            /\ last' = Step("unattach", "", None, None, None)
    /\ UNCHANGED <<console, now, timers, ready, running, reader, sigwinch, wire, sending>>

\* The console queues input records while none is unread.
ConsoleInput(records) ==
    /\ win.input = <<>>
    /\ win' = [win EXCEPT !.input = records]
    /\ last' = Step("console_input", "", None, None, None)
    /\ UNCHANGED <<console, term, now, timers, ready, running, reader, sigwinch, wire, sending>>

\* The index WaitForMultipleObjects(2, EVENTS, False, -1) returns for
\* EVENTS = (event, STDIN): 0 when the event is set, 1 when only the console
\* has input, -1 (WAIT_FAILED) on a closed handle, None while it blocks.
WaitFor(event, w) ==
    IF w.handles[event] = "closed" THEN Some(0 - 1)
    ELSE IF w.handles[event] = "set" THEN Some(0)
    ELSE IF w.input # <<>> THEN Some(1)
    ELSE None

\* wait, run by the executor calling ready itself when the wait returns.
WorkerWakeDirect ==
    \E w \in win.waits :
        /\ w.pc = "wait"
        /\ WaitFor(w.event, win) # None
        /\ \E read \in {ProcessStdin(term, timers, win.input, now)} :
               /\ term' = read.t
               /\ timers' = read.timers
        /\ win' = [win EXCEPT !.input = <<>>]
        /\ last' = Step("worker_wake", "", None, WaitFor(w.event, win), None)
        /\ UNCHANGED <<console, now, ready, running, reader, sigwinch, wire, sending>>

\* wait, lines 318-323: the worker's WaitForMultipleObjects returns; on 0
\* it goes on to close the event, otherwise it posts ready and ends.
WorkerWake ==
    \E w \in win.waits :
        /\ w.pc = "wait"
        /\ WaitFor(w.event, win) # None
        /\ IF WaitFor(w.event, win) = Some(0)
           THEN /\ win' = [win EXCEPT
                       !.waits = (@ \ {w}) \cup {[w EXCEPT !.pc = "close"]}]
                /\ ready' = ready
           ELSE /\ Len(ready) < MaxReady
                /\ win' = [win EXCEPT !.waits = @ \ {w}]
                /\ ready' = Append(ready, [src |-> "ready", handler |-> w.handler,
                                           event |-> w.event])
        /\ last' = Step("worker_wake", "", None, WaitFor(w.event, win), None)
        /\ UNCHANGED <<console, term, now, timers, running, reader, sigwinch, wire, sending>>

\* wait, line 320: CloseHandle(self._remove_event), the attribute read now.
WorkerClose ==
    \E w \in win.waits :
        /\ w.pc = "close"
        /\ IF win.remove_event = None
           THEN /\ win' = [win EXCEPT !.waits = @ \ {w}]
                /\ last' = [Step("worker_close", "", None, Some("AttributeError"), None)
                               EXCEPT !.arg = <<w.event>>]
           ELSE /\ win' = [win EXCEPT
                       !.handles[win.remove_event[1]] = "closed",
                       !.waits = (@ \ {w}) \cup {[w EXCEPT !.pc = "del"]}]
                /\ last' = [Step("worker_close", "", None, Some(win.remove_event[1]), None)
                               EXCEPT !.arg = <<w.event>>]
        /\ UNCHANGED <<console, term, now, timers, ready, running, reader, sigwinch, wire,
                       sending>>

\* wait, line 321: del self._remove_event; the worker ends.
WorkerDel ==
    \E w \in win.waits :
        /\ w.pc = "del"
        /\ win' = [win EXCEPT !.remove_event = None, !.waits = @ \ {w}]
        /\ last' = [Step("worker_del", "", None,
                         IF win.remove_event = None THEN Some("AttributeError")
                         ELSE None, None)
                       EXCEPT !.arg = <<w.event>>]
        /\ UNCHANGED <<console, term, now, timers, ready, running, reader, sigwinch, wire,
                       sending>>

\* The loop starts a posted `ready`: process_stdin reads every unread
\* record and feeds the characters (lines 242-264).
ReadyBegin ==
    /\ running = None
    /\ ready # <<>>
    /\ Head(ready).src = "ready"
    /\ running' = Some(Head(ready))
    /\ ready' = Tail(ready)
    /\ \E read \in {ProcessStdin(term, timers, win.input, now)} :
           /\ term' = read.t
           /\ timers' = read.timers
    /\ win' = [win EXCEPT !.input = <<>>]
    /\ last' = [Step("ready_begin", "", None, None, None) EXCEPT !.arg = win.input]
    /\ UNCHANGED <<console, now, reader, sigwinch, wire, sending>>

\* The end of `ready` (lines 313-316): event_handler(self.events()) unless
\* process_stdin raised, and in any case run_in_executor(None, wait).
ReadyEnd ==
    /\ running # None
    /\ running[1].src = "ready"
    /\ IF term.raised
       THEN /\ term' = term
            /\ last' = Step("ready_end", "", None, None, None)
       ELSE /\ term' = Events(term).t
            /\ last' = Step("ready_end", "",
                            Some([handler |-> running[1].handler,
                                  events |-> Events(term).ret]),
                            Some(Events(term).ret), None)
    /\ win' = [win EXCEPT
           !.waits = @ \cup {[event |-> running[1].event,
                              handler |-> running[1].handler, pc |-> "wait"]}]
    /\ running' = None
    /\ UNCHANGED <<console, now, timers, ready, reader, sigwinch, wire, sending>>

NextWin ==
    \/ Tick
    \/ \E h \in Handlers : WinAttach(h)
    \/ WinUnattach
    \/ \E records \in RecordBatches : ConsoleInput(records)
    \/ WorkerWake
    \/ WorkerClose
    \/ WorkerDel
    \/ ReadyBegin
    \/ ReadyEnd
    \/ TimerFire

SpecWin == Init /\ [][NextWin]_vars

\* The events of a read decoded record by record, in the order of the
\* records: a key that counts is fed when it is met, a window-size record
\* appends its ResizeEvent when it is met.
InOrder(t, records, time) ==
    LET met[i \in 0..Len(records)] ==
            IF i = 0 THEN [t EXCEPT !.raised = FALSE]
            ELSE IF records[i].EventType = "WINDOW_BUFFER_SIZE_EVENT"
            THEN Emit(met[i - 1], ResizeEvent(Size(records[i].X, records[i].Y)))
            ELSE IF /\ records[i].KeyDown
                    /\ ~(records[i].ControlKeyState # 0 /\ records[i].VirtualKeyCode = 0)
            THEN Feed1(met[i - 1], records[i].UnicodeChar, time)
            ELSE met[i - 1]
    IN  met[Len(records)]

\* No record carries half of a surrogate pair.
NoSurrogate(records) ==
    \A i \in 1..Len(records) :
        records[i].EventType = "KEY_EVENT"
        => ~IsHigh(records[i].UnicodeChar) /\ ~IsLow(records[i].UnicodeChar)

\* C13: a read leaves in the event buffer, after the events it held, the
\* events of the records in the order of the records (those of the keys
\* before a window-size record, its ResizeEvent, those of the keys after
\* it), with the parser where feeding the keys one by one leaves it; a
\* surrogate pair is one key; and the handler is handed the buffer as it is.
C13_ArrivalOrder ==
    [][/\ (last'.op = "ready_begin" /\ NoSurrogate(win.input))
          => /\ ~term'.raised
             /\ term'.event_buffer = InOrder(term, win.input, now).event_buffer
             /\ term'.state = InOrder(term, win.input, now).state
             /\ term'.escape_buffer = InOrder(term, win.input, now).escape_buffer
       /\ (last'.op = "ready_begin" /\ win.input = <<Key("0xd83d"), Key("0xde00")>>
           /\ term.state = "GROUND")
          => term'.event_buffer
               = Append(term.event_buffer, KeyEvent("U+1f600", FALSE, FALSE, FALSE))
       /\ (last'.op = "ready_end" /\ last'.called # None)
          => last'.called[1].events = term.event_buffer]_vars

\* The handler was handed the key before the resize, the resize and the key
\* after it, in this order.
C13_Witness ==
    /\ last.op = "ready_end"
    /\ last.called # None
    /\ last.called[1].events
         = <<KeyEvent("a", FALSE, FALSE, FALSE), ResizeEvent(Size(100, 30)),
             KeyEvent("[", FALSE, FALSE, FALSE)>>

\* The callbacks of the attachment whose cancellation event is `event`:
\* posted to the loop or running.
InFlight(event, queue, current) ==
    \/ \E i \in 1..Len(queue) : queue[i].src = "ready" /\ queue[i].event = event
    \/ current # None /\ current[1].src = "ready" /\ current[1].event = event

\* C17: a worker whose cancellation event is set wakes on it (index 0), also
\* with console input unread, and posts nothing; it then closes that very
\* event; and from then on nothing of its attachment is left: no `ready`
\* posted or running, no other wait.
C17_WorkerStops ==
    [][/\ \A w \in win.waits :
             (/\ last'.op = "worker_wake" /\ w.pc = "wait" /\ w \notin win'.waits
              /\ win.handles[w.event] = "set")
             => /\ last'.ret = Some(0)
                /\ ready' = ready
                /\ [w EXCEPT !.pc = "close"] \in win'.waits
       /\ last'.op = "worker_close" => last'.ret = Some(last'.arg[1])
       /\ \A w \in win'.waits :
             w.pc # "wait"
             => /\ ~InFlight(w.event, ready', running')
                /\ \A v \in win'.waits : v.event = w.event => v = w
       /\ last'.op = "worker_del"
          => /\ ~InFlight(last'.arg[1], ready', running')
             /\ \A v \in win'.waits : v.event # last'.arg[1]]_vars

\* The fields of the decoder.
Decoder(t) ==
    <<t.state, t.escape_buffer, t.paste_buffer, t.event_buffer,
      t.dsr_request_times, t.last_x, t.last_y>>

\* C18: a step of the worker leaves the decoder, the timers and the
\* console's unread records as they are and at most posts one `ready` to the
\* loop; records are read and decoded, and handlers called, only by
\* callbacks of the loop, one at a time.
C18_WorkerOnlyPosts ==
    [][/\ last'.op \in {"worker_wake", "worker_close", "worker_del"}
          => /\ Decoder(term') = Decoder(term)
             /\ term' = term
             /\ timers' = timers
             /\ win'.input = win.input
             /\ running' = running
             /\ \/ ready' = ready
                \/ /\ Len(ready') = Len(ready) + 1
                   /\ SubSeq(ready', 1, Len(ready)) = ready
                   /\ ready'[Len(ready')].src = "ready"
       /\ (Decoder(term') # Decoder(term) \/ win'.input # win.input
           \/ last'.called # None)
          => /\ last'.op \in {"attach", "console_input", "ready_begin", "ready_end",
                               "reset_escape"}
             /\ last'.op = "ready_begin" => running = None
             /\ last'.op = "ready_end" => running # None /\ running' = None
             /\ last'.op = "reset_escape" => running = None]_vars

\* A worker woke and posted `ready` while the loop was inside another
\* `ready`, between its read and its handler call.
C18_Witness ==
    /\ last.op = "worker_wake"
    /\ last.ret = Some(1)
    /\ running # None
    /\ ready # <<>>

\* ------------------------------------------------------------------------
\* The timeout handler and the event handler
\* ------------------------------------------------------------------------

\* C21: when the timer fires with a handler attached, that handler is
\* called, in the same step, with the events the buffer held followed by
\* the one event the timeout produced, and the buffer is empty afterwards;
\* with no handler attached nobody is called and the buffer holds the events
\* it held followed by the new one.
C21_TimeoutDelivers ==
    [][last'.op = "reset_escape"
       => IF term.event_handler # None
          THEN /\ last'.called # None
               /\ last'.called[1].handler = term.event_handler[1]
               /\ Len(last'.called[1].events) = Len(term.event_buffer) + 1
               /\ IsPrefix(term.event_buffer, last'.called[1].events)
               /\ last'.called[1].events[Len(term.event_buffer) + 1].type
                    \in {"KeyEvent", "UnknownEscapeSequence", "PasteEvent"}
               /\ term'.event_buffer = <<>>
          ELSE /\ last'.called = None
               /\ Len(term'.event_buffer) = Len(term.event_buffer) + 1
               /\ IsPrefix(term.event_buffer, term'.event_buffer)]_vars

\* The timer fired with a handler attached and a ResizeEvent buffered: the
\* handler was called with the resize and the key of the timed out ESC.
C21_Witness ==
    /\ last.op = "reset_escape"
    /\ last.called # None
    /\ Len(last.called[1].events) = 2
    /\ last.called[1].events[1].type = "ResizeEvent"
    /\ last.called[1].events[2].type = "KeyEvent"
    /\ term.event_buffer = <<>>

\* ------------------------------------------------------------------------
\* The transitions of the parser, state by state
\* ------------------------------------------------------------------------

\* The one character a feed step fed, "" when it fed none or several.
Fed == IF Len(last'.arg) = 1 THEN last'.arg[1] ELSE ""

\* The feed step appended exactly one event and left the parser in GROUND
\* with no buffer.
FinalizedOne ==
    /\ Len(term'.event_buffer) = Len(term.event_buffer) + 1
    /\ IsPrefix(term.event_buffer, term'.event_buffer)
    /\ term'.state = "GROUND"
    /\ term'.escape_buffer = None
    /\ term'.paste_buffer = None

\* C22: ESC [ A fed from GROUND yields exactly the 'up' key and GROUND; in
\* CSI, every character other than "[", "<", a digit, ";" and ESC finalizes
\* ESC [ and that character with exactly one event, the parser in GROUND.
C22_CsiFinal ==
    [][last'.op = "feed"
       => /\ (last'.arg = <<"ESC", "[", "A">> /\ term.state = "GROUND")
             => /\ term'.event_buffer = <<KeyEvent("up", FALSE, FALSE, FALSE)>>
                /\ term'.state = "GROUND"
                /\ term'.escape_buffer = None
          /\ (/\ term.state = "CSI"
              /\ Fed \in FeedChars \ {"[", "<", ";", "ESC"}
              /\ ~IsDigit(Fed))
             => /\ FinalizedOne
                /\ term.escape_buffer = Some(<<"ESC", "[">>)
                /\ Fed = "A"
                   => term'.event_buffer = <<KeyEvent("up", FALSE, FALSE, FALSE)>>]_vars

\* "?" fed in CSI finalized ESC [ ? with one event.
C22_Witness ==
    /\ last.op = "feed"
    /\ last.arg = <<"?">>
    /\ term.state = "GROUND"
    /\ Len(term.event_buffer) = 1
    /\ term.event_buffer[1].type = "UnknownEscapeSequence"
    /\ term.event_buffer[1].escape = <<"ESC", "[", "?">>

\* C25: in EXECUTE_NEXT (after ESC O or ESC [ [) the next character fed,
\* whatever it is, ESC and the control characters included, is appended to
\* the escape buffer and finalizes it: exactly one event is appended, for
\* the accumulated sequence, and the parser is in GROUND.
C25_ExecuteNextFinalizes ==
    [][(/\ last'.op = "feed"
        /\ term.state = "EXECUTE_NEXT"
        /\ Fed \in FeedChars)
       => /\ FinalizedOne
          /\ LET event == term'.event_buffer[Len(term'.event_buffer)]
             IN  event.type = "UnknownEscapeSequence"
                    => event.escape = Append(term.escape_buffer[1], Fed)]_vars

\* C26: in ESCAPE every character other than "[", "O" and "]" finalizes
\* the two-character sequence at once: exactly one event is appended and
\* the parser is in GROUND, so no ESC is dropped without an event.
C26_EscapeFinalizes ==
    [][(/\ last'.op = "feed"
        /\ term.state = "ESCAPE"
        /\ Fed \in FeedChars \ {"[", "O", "]"})
       => FinalizedOne]_vars

\* ------------------------------------------------------------------------
\* SpecGeo: pixel geometry requests and the terminal's replies
\* ------------------------------------------------------------------------

\* The (height, width) pairs, in pixels, the terminal reports.
Geometries == {<<20, 10>>, <<16, 16>>}

\* The terminal's reply to ESC [ 16 t (k = "6") or ESC [ 14 t (k = "4"):
\* ESC [ k ; height ; width t.
SendGeometry(k, geometry) ==
    Send("geometry", <<k, geometry[1], geometry[2]>>,
         <<"ESC", "[", k, ";">> \o Str(geometry[1]) \o <<";">>
            \o Str(geometry[2]) \o <<"t">>)

RequestCellGeometry == Request("cell_geometry")

RequestTerminalGeometry == Request("terminal_geometry")

NextGeo ==
    \/ Tick
    \/ Attach("h1")
    \/ StdinReadable
    \/ ProcessBegin
    \/ FeedWire
    \/ ProcessEnd
    \/ TimerFire
    \/ RequestCellGeometry
    \/ RequestTerminalGeometry
    \/ \E k \in {"6", "4"}, geometry \in Geometries : SendGeometry(k, geometry)

SpecGeo == Init /\ [][NextGeo]_vars

\* C24: when the last character of the reply ESC [ k ; h ; w t is fed while
\* a request younger than the DSR timeout is pending and no timeout fired
\* during the reply, the reply has produced exactly one event, the
\* PixelGeometryReportEvent of kind 'cell' (k = 6) or 'terminal' (k = 4)
\* whose geometry has height h and width w.
C24_PixelGeometryReply ==
    [][(/\ last'.op = "feed1"
        /\ sending.kind = "geometry"
        /\ wire = <<"t">>
        /\ ~sending.interrupted
        /\ Unexpired(term.dsr_request_times, now) # <<>>)
       => sending'.produced =
             <<PixelGeometryReportEvent(
                 IF sending.arg[1] = "6" THEN "cell" ELSE "terminal",
                 [height |-> sending.arg[2], width |-> sending.arg[3]])>>]_vars

\* ------------------------------------------------------------------------
\* SpecCut: pastes whose end marker is cut off
\* ------------------------------------------------------------------------

\* What is pasted before the cut: nothing, a character, text with an ESC.
CutContents == {<<>>, <<"a">>, <<"ESC", "a">>}

\* What arrived of the end marker before the cut.
CutEndings == {Slice(BRACKETED_PASTE_END, n) : n \in {0, 1, 2, 5}}

\* The terminal sends the start marker, the content and a part of the end
\* marker, and then nothing more.
SendCut(content, ending) ==
    Send("cut", <<content, ending>>, BRACKETED_PASTE_START \o content \o ending)

NextCut ==
    \/ Tick
    \/ Attach("h1")
    \/ StdinReadable
    \/ ProcessBegin
    \/ FeedWire
    \/ ProcessEnd
    \/ TimerFire
    \/ \E content \in CutContents, ending \in CutEndings : SendCut(content, ending)

SpecCut == Init /\ [][NextCut]_vars

\* The 1-based index of the last c in s, 0 when there is none.
FindLast(s, c) ==
    IF \A i \in 1..Len(s) : s[i] # c THEN 0
    ELSE CHOOSE i \in 1..Len(s) : s[i] = c /\ \A j \in (i + 1)..Len(s) : s[j] # c

\* paste without the non-empty proper prefix of the end marker it ends with,
\* if it ends with one (such a prefix begins at the last ESC of paste).
WithoutPartialEnd(paste) ==
    LET i == FindLast(paste, "ESC")
        ending == SubSeq(paste, i, Len(paste))
    IN  IF /\ i # 0
           /\ Len(ending) < Len(BRACKETED_PASTE_END)
           /\ IsPrefix(ending, BRACKETED_PASTE_END)
        THEN SubSeq(paste, 1, i - 1)
        ELSE paste

\* C27: when the escape timer fires in PASTE, exactly one event is
\* produced, the PasteEvent of the accumulated text without the partial end
\* marker it ends with, whatever the text holds before it, an earlier ESC
\* included; the parser is then in GROUND.
C27_PartialEndStripped ==
    [][(last'.op = "reset_escape" /\ term.state = "PASTE")
       => /\ Len(Produced) = Len(term.event_buffer) + 1
          /\ IsPrefix(term.event_buffer, Produced)
          /\ Produced[Len(Produced)] =
                PasteEvent(WithoutPartialEnd(term.paste_buffer[1]))
          /\ term'.state = "GROUND"
          /\ term'.paste_buffer = None]_vars

\* ------------------------------------------------------------------------
\* SpecExpect: the application asks whether a report is expected
\* ------------------------------------------------------------------------

\* Vt100Terminal.expect_dsr
ExpectDsr(t) == Len(t.dsr_request_times) > 0

\* The application calls expect_dsr().
ExpectDsrCall ==
    /\ running = None
    /\ last' = Step("expect_dsr", "", None, Some(ExpectDsr(term)), None)
    /\ UNCHANGED <<console, win, term, now, timers, ready, running, reader, sigwinch, wire,
                   sending>>

\* What the terminal sends: a key, a cursor position report.
ExpectInputs == {<<"a">>, <<"ESC", "[", "1", ";", "1", "R">>}

SendInput(text) == Send("input", text, text)

NextExpect ==
    \/ Tick
    \/ Attach("h1")
    \/ StdinReadable
    \/ ProcessBegin
    \/ FeedWire
    \/ ProcessEnd
    \/ TimerFire
    \/ RequestCursorPositionReport
    \/ ExpectDsrCall
    \/ \E text \in ExpectInputs : SendInput(text)

SpecExpect == Init /\ [][NextExpect]_vars

\* C28: expect_dsr() returns true exactly when some pending request is
\* younger than the DSR timeout; once every pending request has outlived
\* the timeout it returns false, whether or not input was finalized since.
C28_ExpectDsr ==
    last.op = "expect_dsr"
        => last.ret = Some(Unexpired(term.dsr_request_times, now) # <<>>)

\* ------------------------------------------------------------------------
\* SpecGeneric: input that is no reply, read while requests are pending
\* ------------------------------------------------------------------------

\* What the terminal sends: a control character, a cursor position report,
\* and the escapes that are no reply: a focus report, a mouse report, the
\* start of a paste, a table key, Alt+a, an unknown sequence.
GenericInputs ==
    {<<"^C">>, <<"ESC", "[", "1", ";", "1", "R">>,
     FOCUS_IN, <<"ESC", "[", "<", "0", ";", "1", ";", "1", "M">>,
     BRACKETED_PASTE_START, <<"ESC", "[", "A">>, <<"ESC", "a">>,
     <<"ESC", "[", "?">>}

SendGeneric(text) == Send("generic", text, text)

NextGeneric ==
    \/ Tick
    \/ Attach("h1")
    \/ StdinReadable
    \/ ProcessBegin
    \/ FeedWire
    \/ ProcessEnd
    \/ TimerFire
    \/ RequestCursorPositionReport
    \/ \E text \in GenericInputs : SendGeneric(text)

SpecGeneric == Init /\ [][NextGeneric]_vars

\* `escape` has one of the four reply shapes.
ReplyShaped(escape) ==
    \/ CPR_RE(escape) \/ COLOR_RE(escape)
    \/ DEVICE_ATTRIBUTES_RE(escape) \/ PIXEL_GEOMETRY_RE(escape)

\* C30: a step that finalizes an escape of none of the four reply shapes
\* while requests are queued leaves the parser as the same step would with
\* an empty queue (same events, same state, same buffers), and leaves in the
\* queue exactly the requests younger than the DSR timeout, in their order;
\* so does the timeout that finalizes such an escape.
C30_GenericWithRequests ==
    [][/\ (/\ last'.op = "feed1"
           /\ Finalizes(last'.char)
           /\ term.dsr_request_times # <<>>
           /\ ~ReplyShaped(Accumulated(last'.char)))
          => term' =
               [Feed1([term EXCEPT !.dsr_request_times = <<>>, !.raised = FALSE],
                      last'.char, now)
                  EXCEPT !.dsr_request_times = Unexpired(term.dsr_request_times, now)]
       /\ (/\ last'.op = "reset_escape"
           /\ term.escape_buffer # None
           /\ term.dsr_request_times # <<>>
           /\ ~ReplyShaped(term.escape_buffer[1]))
          => LET empty == ResetEscape([term EXCEPT !.dsr_request_times = <<>>,
                                                  !.raised = FALSE], now)
             IN  /\ Produced = empty.event_buffer
                 /\ term'.state = empty.state
                 /\ term'.escape_buffer = None
                 /\ term'.dsr_request_times
                      = Unexpired(term.dsr_request_times, now)]_vars

\* A focus report was finalized at 100 ms with the requests of 0 ms and
\* 50 ms queued: it became a FocusEvent, the request of 0 ms was dropped and
\* the request of 50 ms is still queued.
C30_Witness ==
    /\ last.op = "feed1"
    /\ last.char = "I"
    /\ last.dropped = 1
    /\ sending.text = FOCUS_IN
    /\ sending.produced = <<FocusEvent("in")>>
    /\ term.dsr_request_times = <<50>>
    /\ now = 100

\* ------------------------------------------------------------------------
\* SpecConsole: raw mode is entered and the console restored
\* ------------------------------------------------------------------------

\* The settings of stdin a Linux terminal is found with.
LinuxModes ==
    {[iflag |-> iflag, lflag |-> lflag, vmin |-> vmin] :
        iflag \in {{"ICRNL", "IXON"}, {"IGNCR"}, {}},
        lflag \in {{"ECHO", "ICANON", "IEXTEN", "ISIG"}, {"ICANON", "ISIG"}, {}},
        vmin \in {0, 1}}

\* The input and output modes a Windows console is found with.
WindowsInputModes ==
    {{"ENABLE_PROCESSED_INPUT", "ENABLE_LINE_INPUT", "ENABLE_ECHO_INPUT"},
     {"ENABLE_PROCESSED_INPUT"},
     {"ENABLE_VIRTUAL_TERMINAL_INPUT"}}

WindowsOutputModes ==
    {{"ENABLE_PROCESSED_OUTPUT", "ENABLE_WRAP_AT_EOL_OUTPUT"},
     {"ENABLE_PROCESSED_OUTPUT", "ENABLE_VIRTUAL_TERMINAL_PROCESSING"}}

Consoles ==
    {Console("linux", [stdin |-> attrs, stdout |-> {}]) : attrs \in LinuxModes}
    \cup {Console("windows", [stdin |-> input, stdout |-> output]) :
            input \in WindowsInputModes, output \in WindowsOutputModes}

InitConsole ==
    /\ InitTerminal
    /\ console \in Consoles

\* LinuxTerminal.raw_mode: the attributes tcsetattr sets.
LinuxRaw(attrs) ==
    [iflag |-> attrs.iflag \ {"IXON", "IXOFF", "ICRNL", "INLCR", "IGNCR"},
     lflag |-> attrs.lflag \ {"ECHO", "ICANON", "IEXTEN", "ISIG"},
     vmin |-> 1]

\* WindowsTerminal.raw_mode: the modes SetConsoleMode sets.
WindowsRaw(mode) ==
    [stdin |-> {"ENABLE_VIRTUAL_TERMINAL_INPUT"},
     stdout |-> mode.stdout \cup {"ENABLE_VIRTUAL_TERMINAL_PROCESSING"}]

\* raw_mode(): the settings read from the console are saved, whatever was
\* saved before, and the raw settings are set.  `entered` keeps the settings
\* found by the first raw_mode() since the console was last restored.
RawMode ==
    /\ console' =
         [console EXCEPT
            !.original = Some(console.mode),
            !.entered = IF console.original = None THEN Some(console.mode) ELSE @,
            !.mode = IF console.platform = "linux"
                     THEN [stdin |-> LinuxRaw(console.mode.stdin), stdout |-> {}]
                     ELSE WindowsRaw(console.mode)]
    /\ term' = [term EXCEPT !.raised = FALSE]
    /\ last' = Step("raw_mode", "", None, None, None)
    /\ UNCHANGED <<win, now, timers, ready, running, reader, sigwinch, wire, sending>>

\* restore_console(): the saved settings are set and forgotten; reading
\* settings that were never saved, or were forgotten, is an AttributeError
\* raised before anything is set.
RestoreConsole ==
    /\ IF console.original = None
       THEN /\ term' = Raise(term)
            /\ UNCHANGED console
       ELSE /\ term' = [term EXCEPT !.raised = FALSE]
            /\ console' = [console EXCEPT !.mode = console.original[1],
                                          !.original = None]
    /\ last' = Step("restore_console", "", None, None, None)
    /\ UNCHANGED <<win, now, timers, ready, running, reader, sigwinch, wire, sending>>

NextConsole ==
    \/ RawMode
    \/ RestoreConsole

SpecConsole == InitConsole /\ [][NextConsole]_vars

\* C23: restore_console() called after raw_mode() leaves the console with
\* the settings it had before raw mode was entered, however many calls of
\* raw_mode() there were; restore_console() with no saved settings fails
\* and changes no setting.
C23_RestoreOriginal ==
    [][last'.op = "restore_console"
       => IF console.original # None
          THEN /\ ~term'.raised
               /\ console'.mode = console.entered[1]
          ELSE /\ term'.raised
               /\ console'.mode = console.mode]_vars

\* ------------------------------------------------------------------------
\* SpecOsc: operating system command sequences
\* ------------------------------------------------------------------------

\* The characters fed: ESC, the characters that follow ESC in a sequence,
\* a control character and a letter.
OscChars == {"ESC", "]", "\\", "[", "^C", "a"}

\* The application feeds data with no event loop running, the events of the
\* feed before taken, and the parser's text kept within MaxOsc characters.
FeedOsc(data) ==
    /\ running = None
    /\ term.event_handler = None
    /\ term.event_buffer = <<>>
    /\ BufLen(term) + Len(data) <= MaxOsc
    /\ \E fed \in {FeedBatch(term, timers, data, now, FALSE)} :
           /\ term' = fed.t
           /\ timers' = fed.timers
           /\ last' = [Step("feed", "", None, None, None)
                          EXCEPT !.arg = data, !.dropped = Dropped(term, fed.t)]
    /\ UNCHANGED <<console, win, now, ready, running, reader, sigwinch, wire, sending>>

RequestForegroundColor == Request("foreground_color")

NextOsc ==
    \/ \E char \in OscChars : FeedOsc(<<char>>)
    \/ CallEvents
    \/ RequestForegroundColor

SpecOsc == Init /\ [][NextOsc]_vars

\* C31: in OSC every character fed, ESC, control characters and "[" too, is
\* appended to the escape buffer with no event and the parser stays in OSC,
\* until the buffer ends with ESC \; the character that completes ESC \
\* finalizes the whole text with exactly one event and the parser is in
\* GROUND with no buffer.
C31_OscAccumulates ==
    [][(last'.op = "feed" /\ term.state = "OSC" /\ Fed \in OscChars)
       => LET text == Append(term.escape_buffer[1], Fed)
              n == Len(text)
          IN  IF text[n - 1] = "ESC" /\ text[n] = "\\"
              THEN /\ FinalizedOne
                   /\ term'.event_buffer[Len(term'.event_buffer)]
                        \in {UnknownEscapeSequence(text), Generic(text)}
              ELSE /\ term'.state = "OSC"
                   /\ term'.escape_buffer = Some(text)
                   /\ term'.event_buffer = term.event_buffer]_vars

\* ESC ] ESC [ was accumulated, and the "\" fed then was accumulated too:
\* ESC [ \ does not end the sequence.
C31_Witness ==
    /\ last.op = "feed"
    /\ last.arg = <<"\\">>
    /\ term.state = "OSC"
    /\ term.escape_buffer = Some(<<"ESC", "]", "ESC", "[", "\\">>)
    /\ term.event_buffer = <<>>

\* ------------------------------------------------------------------------
\* SpecRaw: pastes of line ends and escape characters
\* ------------------------------------------------------------------------

\* What is pasted: a letter, a carriage return, a line feed, the pair of
\* them between letters, text that holds ESC.
RawContents ==
    {<<"a">>, <<"CR">>, <<"LF">>, <<"a", "CR", "LF", "a">>, <<"ESC", "a">>,
     <<"ESC", "[", "~">>}

NextRaw ==
    \/ Tick
    \/ Attach("h1")
    \/ StdinReadable
    \/ ProcessBegin
    \/ FeedWire
    \/ ProcessEnd
    \/ TimerFire
    \/ \E content \in RawContents : SendPaste(content)

SpecRaw == Init /\ [][NextRaw]_vars

\* C32: a paste received whole from GROUND, with no timeout in between,
\* yields one PasteEvent whose paste is exactly the characters received
\* between the start marker and the end marker, carriage returns, line
\* feeds and ESC included.
C32_PasteRaw ==
    (PasteFed /\ sending.origin = "GROUND")
    => /\ Len(sending.produced) = 1
       /\ sending.produced[1].type = "PasteEvent"
       /\ sending.produced[1].paste = sending.arg

\* ------------------------------------------------------------------------
\* SpecControl: control characters read by the event loop
\* ------------------------------------------------------------------------

\* The control characters other than ESC.
ControlChars == {"^C", "TAB", "LF", "CR", "DEL", "0x9b"}

\* What the terminal sends: a control character, alone or after a key, ESC.
ControlInputs ==
    {<<char>> : char \in ControlChars} \cup {<<"a", "^C">>, <<"ESC">>}

SendControl(text) == Send("control", text, text)

NextControl ==
    \/ Tick
    \/ Attach("h1")
    \/ StdinReadable
    \/ ProcessBegin
    \/ FeedWire
    \/ ProcessEnd
    \/ TimerFire
    \/ RequestCursorPositionReport
    \/ \E text \in ControlInputs : SendControl(text)

SpecControl == Init /\ [][NextControl]_vars

\* C33: a control character other than ESC fed in GROUND appends exactly
\* one event, the table key of that character or else the
\* UnknownEscapeSequence of it, and leaves the parser in GROUND with no
\* escape buffer; the feed touches no timer, and the batch that ends in
\* GROUND schedules none.
C33_ControlInGround ==
    [][/\ (last'.op = "feed1" /\ term.state = "GROUND" /\ last'.char \in ControlChars)
          => /\ term'.event_buffer =
                  Append(term.event_buffer,
                         IF <<last'.char>> \in DOMAIN ANSI_ESCAPES
                         THEN ANSI_ESCAPES[<<last'.char>>]
                         ELSE UnknownEscapeSequence(<<last'.char>>))
             /\ term'.state = "GROUND"
             /\ term'.escape_buffer = None
             /\ term'.paste_buffer = None
             /\ timers' = timers
       /\ (last'.op = "process_end" /\ sending.kind = "control"
              /\ sending.text[Len(sending.text)] \in ControlChars
              /\ last.op = "feed1" /\ wire = <<>>)
          => /\ term.state = "GROUND"
             /\ timers' = <<>>
             /\ term'.reset_timer_handle = None]_vars

\* The character 0x9b was read in GROUND and became an unknown sequence; the
\* callback that read it has ended and no timer is pending.
C33_Witness ==
    /\ last.op = "process_end"
    /\ last.ret = Some(<<UnknownEscapeSequence(<<"0x9b">>)>>)
    /\ sending.text = <<"0x9b">>
    /\ term.state = "GROUND"
    /\ term.escape_buffer = None
    /\ timers = <<>>

\* ------------------------------------------------------------------------
\* SpecLive: the event loop runs its callbacks and its timers
\* ------------------------------------------------------------------------

\* What the terminal sends: a key and sequences that stay unfinished in
\* ESCAPE, CSI, OSC, EXECUTE_NEXT, PARAMS and PASTE.
LiveInputs ==
    {<<"a">>, <<"ESC">>, <<"ESC", "[">>, <<"ESC", "]", "a">>, <<"ESC", "O">>,
     <<"ESC", "[", "1">>, BRACKETED_PASTE_START \o <<"a">>}

\* Input is sent and read while the clock of the model can still reach the
\* deadline of the timer that reading it starts.
InTime == now + ESCAPE_TIMEOUT <= MaxTime

SendLive(text) == InTime /\ Send("live", text, text)

\* The selector reports stdin readable when there is something to read.
Readable == InTime /\ wire # <<>> /\ StdinReadable

ProcessBeginInTime == InTime /\ ProcessBegin

NextLive ==
    \/ Tick
    \/ Attach("h1")
    \/ Unattach
    \/ Readable
    \/ ProcessBeginInTime
    \/ FeedWire
    \/ ProcessEnd
    \/ TimerFire
    \/ \E text \in LiveInputs : SendLive(text)

\* Time passes, a callback that began runs to its end and the loop calls a
\* timer that is due.
SpecLive ==
    /\ Init
    /\ [][NextLive]_vars
    /\ SF_vars(Tick)
    /\ WF_vars(FeedWire)
    /\ WF_vars(ProcessEnd)
    /\ WF_vars(TimerFire)

\* C34: with the loop running, a parser outside GROUND returns to GROUND
\* once input stops; while it is outside GROUND and no callback runs, a
\* timer is pending that is due within one escape timeout, and the timeout
\* produces an event for the unfinished text.
C34_ReturnsToGround ==
    /\ (term.state # "GROUND") ~> (term.state = "GROUND")
    /\ []((running = None /\ term.state # "GROUND")
            => \E i \in 1..Len(timers) : timers[i] <= now + ESCAPE_TIMEOUT)
    /\ [][(last'.op = "reset_escape" /\ term.state # "GROUND")
            => /\ Len(Produced) = Len(term.event_buffer) + 1
               /\ term'.state = "GROUND"]_vars

\* ESC ] a stayed unfinished in OSC until the timeout, which handed it to
\* the handler as an unknown sequence.
C34_Witness ==
    /\ last.op = "reset_escape"
    /\ last.called # None
    /\ last.called[1].events = <<UnknownEscapeSequence(<<"ESC", "]", "a">>)>>
    /\ term.state = "GROUND"
    /\ timers = <<>>

\* ------------------------------------------------------------------------
\* SpecQuiet: resize notifications after the input has stopped
\* ------------------------------------------------------------------------

\* What the terminal sends: a lone ESC, a key, the beginning of a sequence.
QuietInputs == {<<"ESC">>, <<"a">>, <<"ESC", "[">>}

\* The terminal sends its input at time 0.
SendAtStart(text) == now = 0 /\ Send("quiet", text, text)

\* Time passes once everything the terminal sent has been read.
TickQuiet == wire = <<>> /\ Tick

\* The loop polls stdin between two callbacks.
ReadableIdle == running = None /\ Readable

NextQuiet ==
    \/ TickQuiet
    \/ Attach("h1")
    \/ ReadableIdle
    \/ \E size \in Sizes : OnResize(size)
    \/ ProcessBegin
    \/ FeedWire
    \/ ProcessEnd
    \/ TimerFire
    \/ \E text \in QuietInputs : SendAtStart(text)

SpecQuiet == Init /\ [][NextQuiet]_vars

\* C38: only input restarts the escape timer.  With every character read at
\* time 0, a pending timer is due at ESCAPE_TIMEOUT at the latest, however
\* many resize notifications arrive afterwards.
C38_OnlyInputRestarts ==
    \A i \in 1..Len(timers) : timers[i] <= ESCAPE_TIMEOUT

\* ------------------------------------------------------------------------
\* SpecMix: cursor position requests answered by replies of two kinds
\* ------------------------------------------------------------------------

\* Only request_cursor_position_report() is called; the terminal sends
\* cursor position reports and pixel geometry replies.
NextMix ==
    \/ Tick
    \/ Attach("h1")
    \/ StdinReadable
    \/ ProcessBegin
    \/ FeedWire
    \/ ProcessEnd
    \/ TimerFire
    \/ RequestCursorPositionReport
    \/ \E pos \in {Point(1, 2)} : Report(pos)
    \/ \E k \in {"6", "4"} : SendGeometry(k, <<20, 10>>)

SpecMix == Init /\ [][NextMix]_vars

\* C35: a reply event is of the kind of the request it consumes.  Every
\* request of SpecMix being a cursor position request, a step that appends
\* a reply event (and so removes a request from the queue) appends a
\* CursorPositionResponseEvent.
C35_ReplyKindMatches ==
    [][AppendsReply
       => /\ Len(term'.dsr_request_times) < Len(term.dsr_request_times)
          /\ term'.event_buffer[Len(term'.event_buffer)].type
                = "CursorPositionResponseEvent"]_vars

\* ------------------------------------------------------------------------
\* Re-attaching a WindowsTerminal while the previous worker still waits
\* ------------------------------------------------------------------------

\* C36: a worker closes only the cancellation event of the attach() that
\* started it, so the event a worker waits on (that of its own attachment)
\* is never closed under it, and the event of the current attachment is
\* still referred to by the terminal for unattach() to set.
C36_OwnEventStaysOpen ==
    \A w \in win.waits :
        w.pc = "wait"
        => /\ win.handles[w.event] # "closed"
           /\ (win.handles[w.event] = "unset" => win.remove_event = Some(w.event))

\* ------------------------------------------------------------------------
\* SpecStates: every parser state, entered and left by input and by timeout
\* ------------------------------------------------------------------------

\* Texts that enter and leave each state of the parser, whole or cut short.
StateInputs ==
    {<<"a">>, <<"^C">>, <<"ESC">>, <<"ESC", "a">>, <<"ESC", "[", "A">>,
     <<"ESC", "O", "P">>, <<"ESC", "O">>, <<"ESC", "[", "[", "A">>,
     <<"ESC", "]", "a", "ESC", "\\">>, <<"ESC", "]", "a">>,
     <<"ESC", "[", "<">>,
     BRACKETED_PASTE_START \o <<"a">> \o BRACKETED_PASTE_END,
     BRACKETED_PASTE_START \o <<"ESC">>}

SendState(text) == Send("state", text, text)

NextStates ==
    \/ Tick
    \/ Attach("h1")
    \/ Unattach
    \/ StdinReadable
    \/ ProcessBegin
    \/ FeedWire
    \/ ProcessEnd
    \/ TimerFire
    \/ \E text \in StateInputs : SendState(text)

SpecStates == Init /\ [][NextStates]_vars

\* The states in which the parser holds the text of an unfinished sequence.
Buffering == {"ESCAPE", "CSI", "OSC", "PARAMS", "EXECUTE_NEXT"}

\* C37: between two characters the escape buffer exists exactly in the
\* states ESCAPE, CSI, OSC, PARAMS and EXECUTE_NEXT and then starts with
\* ESC, the paste buffer exists exactly in the state PASTE, and no step
\* has raised for writing to or reading a missing buffer.
C37_BuffersMatchState ==
    /\ term.escape_buffer # None <=> term.state \in Buffering
    /\ term.state \in Buffering
       => /\ Len(term.escape_buffer[1]) >= 1
          /\ term.escape_buffer[1][1] = "ESC"
    /\ term.paste_buffer # None <=> term.state = "PASTE"
    /\ ~term.raised

\* The events the timeout handed over or left in the event buffer.
Produced37 == IF last.called # None THEN last.called[1].events ELSE term.event_buffer

\* A paste timed out with text in its buffer and left the parser in GROUND
\* without buffers.
C37_Witness ==
    /\ last.op = "reset_escape"
    /\ sending.origin = "GROUND"
    /\ sending.text = BRACKETED_PASTE_START \o <<"ESC">>
    /\ Produced37 = <<PasteEvent(<<>>)>>
    /\ term.state = "GROUND"
    /\ term.escape_buffer = None
    /\ term.paste_buffer = None

====
